---- MODULE Spec2Model ----
(***************************************************************************)
(* Validation & quality-control engine of the receipt processor            *)
(* (src/src/integrations/data_validator.py) together with the record       *)
(* constructors it reads from (src/src/models/receipt.py).                 *)
(*                                                                         *)
(* Encoding of Python values:                                              *)
(*   - Optional[T]: None is <<>>, a present value x is <<x>>.              *)
(*   - str: a sequence of one-character strings; a category name, which  *)
(*     the code only compares and tests for emptiness, is one TLA+ string. *)
(*   - amounts (float): an integer number of thousandths (45.99 = 45990).  *)
(*   - confidences (float in [0,1]): an integer number of hundredths.      *)
(*   - a date string: <<n1, sep1, n2, sep2, n3>>, three numbers and the    *)
(*     two separators between them (a number >= 1000 is written with four  *)
(*     digits, a number <= 99 with one or two).                            *)
(***************************************************************************)
EXTENDS Integers, Sequences, FiniteSets, TLC

VARIABLES receipts, results, result, pc, idx,
          config_file, categories, vendor_mappings, arg, cpc, ret,
          rule, expense_data, rpc, ri, rret,
          calls, heap

\* the validator's run: the batch, the verdicts collected so far, the verdict
\* under construction, the position in validate_batch and the loop index
valvars == <<receipts, results, result, pc, idx>>

\* the categorizer: the configuration file it is built from, its category store
\* and vendor table, the record a call is about, the position in the
\* constructor or call, and the value the last call returned
catvars == <<config_file, categories, vendor_mappings, arg, cpc, ret>>

\* the rule engine: an ExpenseRule, the dict a caller passes to its methods (the
\* caller keeps a reference to it), the position in the method called, the index
\* of the loop over the rule's actions, and the value the last call returned
rulevars == <<rule, expense_data, rpc, ri, rret>>

\* validate_processed_receipt called on the records of receipts by concurrent
\* callers: each call's position and the verdict object it holds a reference to,
\* and the verdict objects allocated so far
parvars == <<calls, heap>>

vars == <<receipts, results, result, pc, idx, config_file, categories, vendor_mappings, arg, cpc, ret,
          rule, expense_data, rpc, ri, rret, calls, heap>>

(***************************************************************************)
(* Python values                                                           *)
(***************************************************************************)
None == <<>>

Some(x) == <<x>>

Val(o) == o[1]

AsciiUpper == <<"A", "B", "C", "D", "E", "F", "G", "H", "I", "J", "K", "L", "M", "N", "O", "P", "Q", "R", "S", "T", "U", "V", "W", "X", "Y", "Z">>

AsciiLower == <<"a", "b", "c", "d", "e", "f", "g", "h", "i", "j", "k", "l", "m", "n", "o", "p", "q", "r", "s", "t", "u", "v", "w", "x", "y", "z">>

Digits == <<"0", "1", "2", "3", "4", "5", "6", "7", "8", "9">>

UpperToLower == [c \in {AsciiUpper[k] : k \in DOMAIN AsciiUpper} |-> AsciiLower[CHOOSE k \in DOMAIN AsciiUpper : AsciiUpper[k] = c]]

\* str.lower()
RECURSIVE Lower(_)
Lower(s) ==
    IF s = <<>> THEN <<>>
    ELSE <<IF Head(s) \in DOMAIN UpperToLower THEN UpperToLower[Head(s)] ELSE Head(s)>> \o Lower(Tail(s))

\* c.isalnum()
AlnumChars == {AsciiUpper[k] : k \in DOMAIN AsciiUpper} \cup {AsciiLower[k] : k \in DOMAIN AsciiLower} \cup {Digits[k] : k \in DOMAIN Digits}

IsAlnum(c) == c \in AlnumChars

\* c.isspace()
IsSpace(c) == c = " "

RECURSIVE LStrip(_)
LStrip(s) == IF s # <<>> /\ IsSpace(Head(s)) THEN LStrip(Tail(s)) ELSE s

RECURSIVE RStrip(_)
RStrip(s) == IF s # <<>> /\ IsSpace(s[Len(s)]) THEN RStrip(SubSeq(s, 1, Len(s) - 1)) ELSE s

\* str.strip()
Strip(s) == RStrip(LStrip(s))

\* the characters _validate_vendor does not count as special: alphanumerics and ' -&.'
IsVendorChar(c) == IsAlnum(c) \/ c \in {" ", "-", "&", "."}

\* sum(1 for c in vendor if not c.isalnum() and c not in ' -&.')
RECURSIVE SpecialCharCount(_)
SpecialCharCount(s) == IF s = <<>> THEN 0 ELSE (IF IsVendorChar(Head(s)) THEN 0 ELSE 1) + SpecialCharCount(Tail(s))

\* sum(1 for c in ocr_text if c.isalnum() or c.isspace())
RECURSIVE ReadableChars(_)
ReadableChars(s) == IF s = <<>> THEN 0 ELSE (IF IsAlnum(Head(s)) \/ IsSpace(Head(s)) THEN 1 ELSE 0) + ReadableChars(Tail(s))

Abs(n) == IF n < 0 THEN -n ELSE n

Max(a, b) == IF a >= b THEN a ELSE b

Min(a, b) == IF a <= b THEN a ELSE b

(***************************************************************************)
(* models/receipt.py: Receipt and ProcessedReceipt                         *)
(***************************************************************************)
\* Receipt(id=.., vendor=.., amount=.., date=.., ocr_text=..) after __post_init__
Receipt(id, vendor, amount, date, ocr_text) ==
    [id       |-> id,
     vendor   |-> IF vendor # None /\ Val(vendor) # <<>> THEN Some(Strip(Val(vendor))) ELSE vendor,
     amount   |-> IF amount # None /\ Val(amount) < 0 THEN Some(Abs(Val(amount))) ELSE amount,
     date     |-> date,
     ocr_text |-> ocr_text]

\* f"{self.receipt.vendor} - {self.category}"
DerivedDescription(vendor, category) ==
    vendor \o <<" ", "-", " ">> \o <<IF category = None THEN "None" ELSE Val(category)>>

\* ProcessedReceipt(receipt=.., category=.., confidence_score=.., description=..)
\* after __post_init__
ProcessedReceipt(receipt, category, confidence_score, description) ==
    [receipt          |-> receipt,
     category         |-> category,
     confidence_score |-> confidence_score,
     description      |-> IF description = <<>> /\ receipt.vendor # None /\ Val(receipt.vendor) # <<>>
                          THEN DerivedDescription(Val(receipt.vendor), category)
                          ELSE description]

\* Python truthiness of an Optional[str]: `if s`
TruthyStr(o) == o # None /\ Val(o) # <<>>

\* Python truthiness of an Optional[float]: `if amount`
TruthyNum(o) == o # None /\ Val(o) # 0

(***************************************************************************)
(* ValidationResult                                                        *)
(***************************************************************************)
\* ValidationResult.__init__
ValidationResult == [is_valid |-> TRUE, errors |-> <<>>, warnings |-> <<>>, confidence_score |-> 100]

add_error_NoFlag(v, message) == [v EXCEPT !.errors = Append(@, message)]

\* ValidationResult.add_error
add_error(v, message) == [v EXCEPT !.errors = Append(@, message), !.is_valid = FALSE]

\* ValidationResult.add_warning
add_warning(v, message) == [v EXCEPT !.warnings = Append(@, message)]

reduce_confidence_NoFloor(v, amount) == [v EXCEPT !.confidence_score = @ - amount]

reduce_confidence_Noop(v, amount) == v

\* ValidationResult.reduce_confidence
reduce_confidence(v, amount) == [v EXCEPT !.confidence_score = Max(0, @ - amount)]

(***************************************************************************)
(* datetime.strptime and date arithmetic, as _validate_date uses them      *)
(***************************************************************************)
IsLeap(y) == (y % 4 = 0) /\ ((y % 100 # 0) \/ (y % 400 = 0))

DaysInMonth(y, m) ==
    IF m = 2 THEN (IF IsLeap(y) THEN 29 ELSE 28)
    ELSE IF m \in {4, 6, 9, 11} THEN 30 ELSE 31

DaysBeforeMonth(y, m) ==
    <<0, 31, 59, 90, 120, 151, 181, 212, 243, 273, 304, 334>>[m] + (IF m > 2 /\ IsLeap(y) THEN 1 ELSE 0)

\* datetime(y, m, d).toordinal()
Ordinal(y, m, d) ==
    (y - 1) * 365 + ((y - 1) \div 4) - ((y - 1) \div 100) + ((y - 1) \div 400) + DaysBeforeMonth(y, m) + d

\* date_formats, in the order the code tries them
date_formats ==
    << <<"Y", "-", "m", "-", "d">>,
       <<"m", "/", "d", "/", "Y">>,
       <<"d", "/", "m", "/", "Y">>,
       <<"Y", "/", "m", "/", "d">>,
       <<"m", "-", "d", "-", "Y">>,
       <<"d", "-", "m", "-", "Y">> >>

\* one strptime directive against one number of the string
FieldMatches(directive, n) ==
    CASE directive = "Y" -> n >= 1000 /\ n <= 9999
      [] directive = "m" -> n >= 1 /\ n <= 12
      [] directive = "d" -> n >= 1 /\ n <= 31

FieldOf(date_str, fmt, directive) ==
    IF fmt[1] = directive THEN date_str[1] ELSE IF fmt[3] = directive THEN date_str[3] ELSE date_str[5]

\* datetime.strptime(date_str, fmt): <<y, m, d>>, or <<>> for ValueError
strptime(date_str, fmt) ==
    IF /\ date_str[2] = fmt[2]
       /\ date_str[4] = fmt[4]
       /\ FieldMatches(fmt[1], date_str[1])
       /\ FieldMatches(fmt[3], date_str[3])
       /\ FieldMatches(fmt[5], date_str[5])
       /\ FieldOf(date_str, fmt, "d") <= DaysInMonth(FieldOf(date_str, fmt, "Y"), FieldOf(date_str, fmt, "m"))
    THEN <<FieldOf(date_str, fmt, "Y"), FieldOf(date_str, fmt, "m"), FieldOf(date_str, fmt, "d")>>
    ELSE <<>>

\* the loop over date_formats: the first format that parses, from format k on
RECURSIVE ParseFrom(_, _)
ParseFrom(date_str, k) ==
    IF k > Len(date_formats) THEN <<>>
    ELSE IF strptime(date_str, date_formats[k]) # <<>> THEN strptime(date_str, date_formats[k])
    ELSE ParseFrom(date_str, k + 1)

parsed_date(date_str) == ParseFrom(date_str, 1)

(***************************************************************************)
(* DataValidator: the per-record checks                                    *)
(***************************************************************************)
\* config.MIN_CONFIDENCE_SCORE, in hundredths
MIN_CONFIDENCE_SCORE == 80

Placeholders == {<<"u", "n", "k", "n", "o", "w", "n">>, <<"n", "/", "a">>, <<"n", "a">>, <<"n", "o", "n", "e">>, <<"t", "e", "s", "t">>}

\* DataValidator._validate_vendor
validate_vendor(receipt, res) ==
    LET vendor == receipt.receipt.vendor IN
    IF ~TruthyStr(vendor) THEN add_error(res, "Vendor name is missing")
    ELSE
      LET v  == Val(vendor)
          r1 == IF Len(Strip(v)) < 2 THEN add_error(res, "Vendor name too short") ELSE res
          r2 == IF Len(v) > 100 THEN add_warning(r1, "Vendor name unusually long") ELSE r1
          r3 == IF Lower(v) \in Placeholders
                THEN reduce_confidence(add_warning(r2, "Vendor name appears to be placeholder"), 30)
                ELSE r2
          r4 == IF 5 * SpecialCharCount(v) > Len(v)
                THEN reduce_confidence(add_warning(r3, "Vendor name contains many special characters"), 20)
                ELSE r3
      IN r4

validate_amount_AnyWhole(receipt, res) ==
    LET amount == receipt.receipt.amount IN
    IF amount = None THEN add_error(res, "Amount is missing")
    ELSE
      LET a  == Val(amount)
          r1 == IF a <= 0 THEN add_error(res, "Amount must be positive") ELSE res
          r2 == IF a > 50000 * 1000
                THEN reduce_confidence(add_warning(r1, "Amount is unusually high"), 10)
                ELSE r1
          r3 == IF a % 1000 = 0
                THEN reduce_confidence(add_warning(r2, "Amount is a round number - verify accuracy"), 10)
                ELSE r2
          r4 == IF a % 10 # 0 THEN add_warning(r3, "Amount has more than 2 decimal places") ELSE r3
      IN r4

\* DataValidator._validate_amount (Decimal(str(amount)) of a float never raises
\* InvalidOperation, so "Amount format is invalid" is not appended)
validate_amount(receipt, res) ==
    LET amount == receipt.receipt.amount IN
    IF amount = None THEN add_error(res, "Amount is missing")
    ELSE
      LET a  == Val(amount)
          r1 == IF a <= 0 THEN add_error(res, "Amount must be positive") ELSE res
          r2 == IF a > 50000 * 1000
                THEN reduce_confidence(add_warning(r1, "Amount is unusually high"), 10)
                ELSE r1
          r3 == IF a % 1000 = 0 /\ a >= 100 * 1000
                THEN reduce_confidence(add_warning(r2, "Amount is a round number - verify accuracy"), 10)
                ELSE r2
          r4 == IF a % 10 # 0 THEN add_warning(r3, "Amount has more than 2 decimal places") ELSE r3
      IN r4

\* DataValidator._validate_date; now is datetime.now(): [day: ordinal, midnight: BOOLEAN]
validate_date(receipt, res, now) ==
    LET date_str == receipt.receipt.date IN
    IF date_str = None \/ Val(date_str) = <<>> THEN add_warning(res, "Date is missing")
    ELSE
      LET p == parsed_date(Val(date_str)) IN
      IF p = <<>> THEN add_error(res, "Invalid date format")
      ELSE
        LET o  == Ordinal(p[1], p[2], p[3])
            \* parsed_date < today - timedelta(days=365)
            r1 == IF (IF now.midnight THEN o < now.day - 365 ELSE o <= now.day - 365)
                  THEN add_warning(res, "Date is more than one year old")
                  ELSE res
            \* parsed_date > today + timedelta(days=30)
            r2 == IF o > now.day + 30
                  THEN reduce_confidence(add_warning(r1, "Date is in the future"), 20)
                  ELSE r1
        IN r2

\* DataValidator._get_valid_categories
get_valid_categories ==
    {"Office Supplies", "Meals & Entertainment", "Travel", "Technology", "Marketing", "Utilities",
     "Professional Services", "Insurance", "Maintenance & Repairs", "Miscellaneous"}

\* category_ranges of _validate_category_amount_consistency: <<min, max>>
category_ranges ==
    [c \in get_valid_categories |->
        CASE c = "Office Supplies" -> <<1, 500>>
          [] c = "Meals & Entertainment" -> <<5, 200>>
          [] c = "Travel" -> <<10, 2000>>
          [] c = "Technology" -> <<25, 5000>>
          [] c = "Marketing" -> <<50, 10000>>
          [] c = "Utilities" -> <<25, 1000>>
          [] c = "Professional Services" -> <<100, 50000>>
          [] c = "Insurance" -> <<50, 5000>>
          [] c = "Maintenance & Repairs" -> <<25, 2000>>
          [] c = "Miscellaneous" -> <<1, 1000>>]

\* DataValidator._validate_category_amount_consistency
validate_category_amount_consistency(receipt, res) ==
    LET category == Val(receipt.category)
        amount   == receipt.receipt.amount
    IN
    IF ~TruthyNum(amount) THEN res
    ELSE IF category \in DOMAIN category_ranges
    THEN IF Val(amount) < category_ranges[category][1] * 1000
         THEN add_warning(res, "Amount is low for category")
         ELSE IF Val(amount) > category_ranges[category][2] * 1000
         THEN add_warning(res, "Amount is high for category")
         ELSE res
    ELSE res

\* DataValidator._validate_category
validate_category(receipt, res) ==
    LET category == receipt.category IN
    IF category = None \/ Val(category) = "" THEN add_error(res, "Category is missing")
    ELSE
      LET r1 == IF Val(category) \notin get_valid_categories
                THEN add_warning(res, "Unknown category")
                ELSE res
      IN validate_category_amount_consistency(receipt, r1)

\* DataValidator._load_validation_rules: no rule is loaded
validation_rules == <<>>

\* DataValidator._validate_business_rules: a loop over validation_rules, whose body
\* (_apply_validation_rule) is `pass`
RECURSIVE ApplyRulesFrom(_, _, _)
ApplyRulesFrom(receipt, res, k) ==
    IF k > Len(validation_rules) THEN res ELSE ApplyRulesFrom(receipt, res, k + 1)

validate_business_rules(receipt, res) == ApplyRulesFrom(receipt, res, 1)

\* ocr_text.count(artifact): non-overlapping occurrences of a three-character run
RECURSIVE CountRun(_, _)
CountRun(s, c) ==
    IF Len(s) < 3 THEN 0
    ELSE IF s[1] = c /\ s[2] = c /\ s[3] = c THEN 1 + CountRun(SubSeq(s, 4, Len(s)), c)
    ELSE CountRun(Tail(s), c)

\* artifact_count over '|||', '~~~', '###', '***'
artifact_count(ocr_text) ==
    CountRun(ocr_text, "|") + CountRun(ocr_text, "~") + CountRun(ocr_text, "#") + CountRun(ocr_text, "*")

\* DataValidator._assess_ocr_quality, as the fraction num/den of a non-empty text:
\* readability - min(artifact_count * 0.1, 0.5), clamped to [0, 1]
assess_ocr_quality(ocr_text) ==
    LET total == Len(ocr_text)
        raw   == 10 * ReadableChars(ocr_text) - Min(artifact_count(ocr_text), 5) * total
    IN [num |-> Max(0, Min(10 * total, raw)), den |-> 10 * total]

\* DataValidator._calculate_completeness: complete_fields (of total_fields = 5)
calculate_completeness(receipt) ==
      (IF TruthyStr(receipt.receipt.vendor) THEN 1 ELSE 0)
    + (IF TruthyNum(receipt.receipt.amount) THEN 1 ELSE 0)
    + (IF receipt.receipt.date # None /\ Val(receipt.receipt.date) # <<>> THEN 1 ELSE 0)
    + (IF receipt.category # None /\ Val(receipt.category) # "" THEN 1 ELSE 0)
    + (IF receipt.description # <<>> THEN 1 ELSE 0)

\* DataValidator._validate_data_quality
validate_data_quality(receipt, res) ==
    LET q  == assess_ocr_quality(receipt.receipt.ocr_text)
        r1 == IF receipt.receipt.ocr_text # <<>> /\ 2 * q.num < q.den
              THEN reduce_confidence(add_warning(res, "Poor OCR text quality detected"), 20)
              ELSE res
        \* completeness_score < 0.7, with completeness_score = complete_fields / 5
        r2 == IF 10 * calculate_completeness(receipt) < 7 * 5
              THEN reduce_confidence(add_warning(r1, "Incomplete data - manual review recommended"), 30)
              ELSE r1
    IN r2

validate_confidence_Inclusive(receipt, res) ==
    LET confidence == receipt.confidence_score
        r1 == IF confidence < MIN_CONFIDENCE_SCORE
              THEN reduce_confidence(add_warning(res, "Low confidence score"), 20)
              ELSE res
        r2 == IF confidence <= 50
              THEN add_error(r1, "Very low confidence - manual review required")
              ELSE r1
    IN r2

\* DataValidator._validate_confidence
validate_confidence(receipt, res) ==
    LET confidence == receipt.confidence_score
        r1 == IF confidence < MIN_CONFIDENCE_SCORE
              THEN reduce_confidence(add_warning(res, "Low confidence score"), 20)
              ELSE res
        r2 == IF confidence < 50
              THEN add_error(r1, "Very low confidence - manual review required")
              ELSE r1
    IN r2

(***************************************************************************)
(* DataValidator: the batch consistency pass                               *)
(***************************************************************************)
DuplicateWarning == "Potential duplicate receipt detected"

OutlierWarning == "Amount significantly higher than batch average"

WarnIfPresent_Penalised(res, receipt_id, message) ==
    IF receipt_id \in DOMAIN res
    THEN [res EXCEPT ![receipt_id] = reduce_confidence(add_warning(@, message), 10)]
    ELSE res

\* results[receipt_id].add_warning(message), guarded by `if receipt_id in results`
WarnIfPresent(res, receipt_id, message) ==
    IF receipt_id \in DOMAIN res
    THEN [res EXCEPT ![receipt_id] = add_warning(@, message)]
    ELSE res

SameReceipt_NoDate(r, s) ==
    /\ r.receipt.vendor = s.receipt.vendor
    /\ r.receipt.amount = s.receipt.amount

\* the duplicate test of _check_duplicates
SameReceipt(r, s) ==
    /\ r.receipt.vendor = s.receipt.vendor
    /\ r.receipt.amount = s.receipt.amount
    /\ r.receipt.date = s.receipt.date

\* inner loop of _check_duplicates: receipt rs[i] against seen_receipts rs[j..i-1]
RECURSIVE CompareWithSeen(_, _, _, _)
CompareWithSeen(rs, res, i, j) ==
    IF j >= i THEN res
    ELSE IF SameReceipt(rs[i], rs[j])
    THEN CompareWithSeen(rs, WarnIfPresent(WarnIfPresent(res, rs[i].receipt.id, DuplicateWarning),
                                           rs[j].receipt.id, DuplicateWarning), i, j + 1)
    ELSE CompareWithSeen(rs, res, i, j + 1)

\* amounts = [r.amount for r in receipts if r.amount]: their sum and their number
RECURSIVE SumAmounts(_, _)
SumAmounts(rs, k) ==
    IF k > Len(rs) THEN 0
    ELSE (IF TruthyNum(rs[k].receipt.amount) THEN Val(rs[k].receipt.amount) ELSE 0) + SumAmounts(rs, k + 1)

NumAmounts(rs) == Cardinality({k \in 1..Len(rs) : TruthyNum(rs[k].receipt.amount)})

IsOutlier_FactorFour(rs, r) ==
    /\ TruthyNum(r.receipt.amount)
    /\ NumAmounts(rs) * Val(r.receipt.amount) > 4 * SumAmounts(rs, 1)

IsOutlier_NoFactor(rs, r) ==
    /\ TruthyNum(r.receipt.amount)
    /\ NumAmounts(rs) * Val(r.receipt.amount) > SumAmounts(rs, 1)

\* receipt.amount and receipt.amount > avg_amount * 5, avg_amount = sum / len
IsOutlier(rs, r) ==
    /\ TruthyNum(r.receipt.amount)
    /\ NumAmounts(rs) * Val(r.receipt.amount) > 5 * SumAmounts(rs, 1)

\* the flagging loop of _check_unusual_patterns, from receipt k on
RECURSIVE FlagOutliers(_, _, _)
FlagOutliers(rs, res, k) ==
    IF k > Len(rs) THEN res
    ELSE FlagOutliers(rs, IF IsOutlier(rs, rs[k]) THEN WarnIfPresent(res, rs[k].receipt.id, OutlierWarning) ELSE res, k + 1)

\* DataValidator._check_unusual_patterns
check_unusual_patterns(rs, res) ==
    IF Len(rs) < 5 THEN res
    ELSE IF NumAmounts(rs) > 0 THEN FlagOutliers(rs, res, 1)
    ELSE res

(***************************************************************************)
(* Inputs                                                                  *)
(***************************************************************************)
\* 2024-02-01, at midnight and later in the day
Clock == {[day |-> Ordinal(2024, 2, 1), midnight |-> m] : m \in BOOLEAN}

Acme == <<"A", "c", "m", "e">>

Bolt == <<"B", "o", "l", "t">>

LongVendor == [k \in 1..101 |-> "a"]

\* vendor arguments: None, "", " A ", "Acme", "NA", "A#", a 101-character name
Vendors == {None, Some(<<>>), Some(<<" ", "A", " ">>), Some(Acme), Some(<<"N", "A">>), Some(<<"A", "#">>), Some(LongVendor)}

\* amount arguments: None, -5.00, 0, 45.99, 45.999, 100.00, 50001.00
Amounts == {None, Some(-5000), Some(0), Some(45990), Some(45999), Some(100000), Some(50001000)}

Jan15 == <<2024, "-", 1, "-", 15>>

\* date arguments: None, "2024-01-15", "2023-02-01" (365 days before the clock),
\* "15/03/2024" (future, day first), "2024.01.15", "2023-02-30"
Dates == {None, Some(Jan15), Some(<<2023, "-", 2, "-", 1>>), Some(<<15, "/", 3, "/", 2024>>),
          Some(<<2024, ".", 1, ".", 15>>), Some(<<2023, "-", 2, "-", 30>>)}

\* ocr_text arguments: "", "Acme 20", "aaa|||"
OcrTexts == {<<>>, <<"A", "c", "m", "e", " ", "2", "0">>, <<"a", "a", "a", "|", "|", "|">>}

\* category arguments: None, "", "Travel", and the constructor's default
Categories == {None, Some(""), Some("Travel"), Some("Uncategorized")}

\* confidence_score arguments: 0.30, 0.50, 0.80
ConfidenceScores == {30, 50, 80}

\* description arguments: "" and "Lunch"
Descriptions == {<<>>, <<"L", "u", "n", "c", "h">>}

\* <<vendor, amount, date>> of the records of a batch
BatchFields == {<<Some(Acme), Some(1000), Some(Jan15)>>,
                <<Some(Acme), Some(30000), Some(Jan15)>>,
                <<Some(Acme), Some(0), Some(Jan15)>>,
                <<Some(Acme), None, Some(Jan15)>>}

MaxBatch == 6

\* <<vendor, amount, date>> arguments of the records of a batch checked for duplicates
DupFields == {<<v, a, d>> : v \in {None, Some(Acme), Some(<<" ">> \o Acme), Some(Bolt)},
                            a \in {None, Some(20000)},
                            d \in {None, Some(Jan15)}}

MaxDupBatch == 3

(***************************************************************************)
(* validate_batch as a state machine.  pc is the position in               *)
(* validate_batch / validate_processed_receipt, idx the loop index,        *)
(* result the verdict under construction for receipts[idx].                *)
(***************************************************************************)
\* `for receipt in receipts:` of validate_batch, entering validate_processed_receipt:
\* result = ValidationResult()
BeginValidate ==
    /\ pc = "loop"
    /\ idx <= Len(receipts)
    /\ result' = ValidationResult
    /\ pc' = "vendor"
    /\ UNCHANGED <<receipts, results, idx>>
    /\ UNCHANGED <<catvars, rulevars, parvars>>

\* the loop of validate_batch is exhausted: _validate_batch_consistency is called
EndLoop ==
    /\ pc = "loop"
    /\ idx > Len(receipts)
    /\ pc' = "duplicates"
    /\ idx' = 1
    /\ UNCHANGED <<receipts, results, result>>
    /\ UNCHANGED <<catvars, rulevars, parvars>>

ValidateVendor_ShortCircuit ==
    /\ pc = "vendor"
    /\ result' = validate_vendor(receipts[idx], result)
    /\ pc' = IF result'.is_valid THEN "amount" ELSE "return"
    /\ UNCHANGED <<receipts, results, idx>>
    /\ UNCHANGED <<catvars, rulevars, parvars>>

ValidateVendor ==
    /\ pc = "vendor"
    /\ result' = validate_vendor(receipts[idx], result)
    /\ pc' = "amount"
    /\ UNCHANGED <<receipts, results, idx>>
    /\ UNCHANGED <<catvars, rulevars, parvars>>

ValidateAmount ==
    /\ pc = "amount"
    /\ result' = validate_amount(receipts[idx], result)
    /\ pc' = "date"
    /\ UNCHANGED <<receipts, results, idx>>
    /\ UNCHANGED <<catvars, rulevars, parvars>>

ValidateDate ==
    /\ pc = "date"
    /\ \E now \in Clock : result' = validate_date(receipts[idx], result, now)
    /\ pc' = "category"
    /\ UNCHANGED <<receipts, results, idx>>
    /\ UNCHANGED <<catvars, rulevars, parvars>>

ValidateCategory ==
    /\ pc = "category"
    /\ result' = validate_category(receipts[idx], result)
    /\ pc' = "business_rules"
    /\ UNCHANGED <<receipts, results, idx>>
    /\ UNCHANGED <<catvars, rulevars, parvars>>

ValidateBusinessRules ==
    /\ pc = "business_rules"
    /\ result' = validate_business_rules(receipts[idx], result)
    /\ pc' = "data_quality"
    /\ UNCHANGED <<receipts, results, idx>>
    /\ UNCHANGED <<catvars, rulevars, parvars>>

ValidateDataQuality ==
    /\ pc = "data_quality"
    /\ result' = validate_data_quality(receipts[idx], result)
    /\ pc' = "confidence"
    /\ UNCHANGED <<receipts, results, idx>>
    /\ UNCHANGED <<catvars, rulevars, parvars>>

ValidateConfidence ==
    /\ pc = "confidence"
    /\ result' = validate_confidence(receipts[idx], result)
    /\ pc' = "return"
    /\ UNCHANGED <<receipts, results, idx>>
    /\ UNCHANGED <<catvars, rulevars, parvars>>

\* results[receipt.receipt.id] = verdict
Store(res, receipt_id, verdict) ==
    [k \in DOMAIN res \cup {receipt_id} |-> IF k = receipt_id THEN verdict ELSE res[k]]

\* `return result` and results[receipt.receipt.id] = ...
StoreResult ==
    /\ pc = "return"
    /\ results' = Store(results, receipts[idx].receipt.id, result)
    /\ idx' = idx + 1
    /\ pc' = "loop"
    /\ UNCHANGED <<receipts, result>>
    /\ UNCHANGED <<catvars, rulevars, parvars>>

\* DataValidator.validate_processed_receipt as one function: the checks in order
validate_processed_receipt(receipt, now) ==
    validate_confidence(receipt,
      validate_data_quality(receipt,
        validate_business_rules(receipt,
          validate_category(receipt,
            validate_date(receipt,
              validate_amount(receipt,
                validate_vendor(receipt, ValidationResult)), now)))))

ValidateReceipt_Streaming ==
    /\ pc = "loop"
    /\ idx <= Len(receipts)
    /\ \E now \in Clock :
          /\ result' = validate_processed_receipt(receipts[idx], now)
          /\ results' = CompareWithSeen(receipts, Store(results, receipts[idx].receipt.id, result'), idx, 1)
    /\ idx' = idx + 1
    /\ UNCHANGED <<receipts, pc>>
    /\ UNCHANGED <<catvars, rulevars, parvars>>

\* one iteration of the loop of validate_batch, validate_processed_receipt taken whole
ValidateReceipt ==
    /\ pc = "loop"
    /\ idx <= Len(receipts)
    /\ \E now \in Clock :
          /\ result' = validate_processed_receipt(receipts[idx], now)
          /\ results' = Store(results, receipts[idx].receipt.id, result')
    /\ idx' = idx + 1
    /\ UNCHANGED <<receipts, pc>>
    /\ UNCHANGED <<catvars, rulevars, parvars>>

\* one iteration of `for receipt in receipts:` of _check_duplicates
CheckDuplicates ==
    /\ pc = "duplicates"
    /\ IF idx <= Len(receipts)
       THEN /\ results' = CompareWithSeen(receipts, results, idx, 1)
            /\ idx' = idx + 1
            /\ pc' = pc
       ELSE /\ results' = results
            /\ idx' = idx
            /\ pc' = "patterns"
    /\ UNCHANGED <<receipts, result>>
    /\ UNCHANGED <<catvars, rulevars, parvars>>

CheckUnusualPatterns ==
    /\ pc = "patterns"
    /\ results' = check_unusual_patterns(receipts, results)
    /\ pc' = "done"
    /\ UNCHANGED <<receipts, result, idx>>
    /\ UNCHANGED <<catvars, rulevars, parvars>>

\* validate_batch, each check of validate_processed_receipt a step
Next ==
    \/ BeginValidate
    \/ ValidateVendor
    \/ ValidateAmount
    \/ ValidateDate
    \/ ValidateCategory
    \/ ValidateBusinessRules
    \/ ValidateDataQuality
    \/ ValidateConfidence
    \/ StoreResult
    \/ EndLoop
    \/ CheckDuplicates
    \/ CheckUnusualPatterns

\* validate_batch, each call of validate_processed_receipt a step
NextBatch ==
    \/ ValidateReceipt
    \/ EndLoop
    \/ CheckDuplicates
    \/ CheckUnusualPatterns

\* no ExpenseRule is in use: _load_validation_rules loads none
NoRules ==
    /\ rule = None
    /\ expense_data = None
    /\ rpc = "absent"
    /\ ri = 1
    /\ rret = None

\* validate_processed_receipt is not being called concurrently
NoCalls ==
    /\ calls = <<>>
    /\ heap = <<>>

\* no ExpenseCategorizer has been constructed: the validator does not use one
NoCategorizer ==
    /\ config_file = None
    /\ categories = None
    /\ vendor_mappings = None
    /\ arg = None
    /\ cpc = "absent"
    /\ ret = None

\* the state validate_batch starts from, for a given batch
Start(batch) ==
    /\ receipts = batch
    /\ results = <<>>
    /\ result = ValidationResult
    /\ pc = "loop"
    /\ idx = 1
    /\ NoCategorizer
    /\ NoRules
    /\ NoCalls

\* validate_batch on one record built by the constructors from any combination of
\* the field values above
Init == \E v \in Vendors, a \in Amounts, d \in Dates, o \in OcrTexts, c \in Categories,
           s \in ConfidenceScores, t \in Descriptions :
            Start(<<ProcessedReceipt(Receipt(1, v, a, d, o), c, s, t)>>)

Spec == Init /\ [][Next]_vars

\* a batch of n records with the ids 1..n, record k built from the fields f[k]
Batch(n, f) ==
    [k \in 1..n |-> ProcessedReceipt(Receipt(k, f[k][1], f[k][2], f[k][3], <<>>), Some("Travel"), 60, <<>>)]

\* validate_batch on a batch of up to MaxBatch records that differ in their amounts
InitBatch == \E n \in 0..MaxBatch : \E f \in [1..n -> BatchFields] : Start(Batch(n, f))

SpecBatch == InitBatch /\ [][NextBatch]_vars

\* validate_batch on a batch of up to MaxDupBatch records that differ in vendor,
\* amount and date
InitDup == \E n \in 0..MaxDupBatch : \E f \in [1..n -> DupFields] : Start(Batch(n, f))

SpecDup == InitDup /\ [][NextBatch]_vars

\* <<id, vendor, amount, date>> arguments of the records of a batch whose ids need
\* not differ
IdFields == {<<i, f[1], f[2], f[3]>> : i \in {1, 2},
                                       f \in {<<Some(Acme), Some(20000), Some(Jan15)>>,
                                              <<Some(Bolt), Some(20000), Some(Jan15)>>,
                                              <<None, None, None>>}}

MaxIdBatch == 3

\* a batch of n records, record k built from the id and the fields f[k]
BatchWithIds(n, f) ==
    [k \in 1..n |-> ProcessedReceipt(Receipt(f[k][1], f[k][2], f[k][3], f[k][4], <<>>), Some("Travel"), 60, <<>>)]

\* validate_batch on a batch of up to MaxIdBatch records, some of which may carry
\* the same id
InitIds == \E n \in 0..MaxIdBatch : \E f \in [1..n -> IdFields] : Start(BatchWithIds(n, f))

SpecIds == InitIds /\ [][NextBatch]_vars

(***************************************************************************)
(* validate_processed_receipt called concurrently, one call per record of  *)
(* receipts.  A verdict is an object of the heap; a call holds a reference *)
(* to the verdict it builds, and every check of a call is one step.        *)
(***************************************************************************)
Allocate_Shared(objects) == 1

\* ValidationResult(): the reference of a newly created object
Allocate(objects) == Len(objects) + 1

\* the heap after the object at ref is initialised or assigned
SetObject(objects, ref, value) ==
    IF ref \in DOMAIN objects THEN [objects EXCEPT ![ref] = value] ELSE Append(objects, value)

\* the checks of validate_processed_receipt in the order of the code, and the
\* position after the last one
CheckOrder == <<"vendor", "amount", "date", "category", "business_rules", "data_quality", "confidence", "returned">>

CheckAfter(name) == CheckOrder[1 + CHOOSE k \in 1..7 : CheckOrder[k] = name]

\* the check at position name of validate_processed_receipt
RunCheck(name, receipt, res, now) ==
    CASE name = "vendor" -> validate_vendor(receipt, res)
      [] name = "amount" -> validate_amount(receipt, res)
      [] name = "date" -> validate_date(receipt, res, now)
      [] name = "category" -> validate_category(receipt, res)
      [] name = "business_rules" -> validate_business_rules(receipt, res)
      [] name = "data_quality" -> validate_data_quality(receipt, res)
      [] name = "confidence" -> validate_confidence(receipt, res)

\* call k enters validate_processed_receipt: result = ValidationResult()
ParBegin ==
    /\ \E k \in DOMAIN calls :
        /\ calls[k].pc = "start"
        /\ LET ref == Allocate(heap) IN
            /\ heap' = SetObject(heap, ref, ValidationResult)
            /\ calls' = [calls EXCEPT ![k] = [pc |-> "vendor", ref |-> ref]]
    /\ UNCHANGED <<valvars, catvars, rulevars>>

\* call k runs its next check on the verdict it refers to (the date check reads the
\* clock); `return result` follows the last check
ParCheck ==
    /\ \E k \in DOMAIN calls :
       \E now \in (IF calls[k].pc = "date" THEN Clock ELSE {CHOOSE now \in Clock : TRUE}) :
        /\ calls[k].pc \notin {"start", "returned"}
        /\ heap' = [heap EXCEPT ![calls[k].ref] = RunCheck(calls[k].pc, receipts[k], @, now)]
        /\ calls' = [calls EXCEPT ![k].pc = CheckAfter(calls[k].pc)]
    /\ UNCHANGED <<valvars, catvars, rulevars>>

NextPar ==
    \/ ParBegin
    \/ ParCheck

\* <<vendor, amount, date>> arguments of the records validated concurrently:
\* a clean record, an empty one, and one whose verdict depends on the time of day
ParFields == {<<Some(Acme), Some(45990), Some(Jan15)>>,
              <<None, None, None>>,
              <<Some(Bolt), Some(0), Some(<<2023, "-", 2, "-", 1>>)>>}

MaxParallel == 2

\* one call per record of a batch of up to MaxParallel records, none begun
InitPar ==
    \E n \in 1..MaxParallel : \E f \in [1..n -> ParFields] :
        /\ receipts = Batch(n, f)
        /\ results = <<>>
        /\ result = ValidationResult
        /\ pc = "absent"
        /\ idx = 1
        /\ calls = [k \in 1..n |-> [pc |-> "start", ref |-> 0]]
        /\ heap = <<>>
        /\ NoCategorizer
        /\ NoRules

SpecPar == InitPar /\ [][NextPar]_vars

(***************************************************************************)
(* Expense categorizer (src/src/core/categorizer.py)                       *)
(*                                                                         *)
(* Further encodings:                                                      *)
(*   - the category store (a dict in insertion order): a sequence of       *)
(*     [name, keywords, vendors] entries; config.get(key, []) of an entry  *)
(*     without that key is the empty sequence.                             *)
(*   - a bytes object (what an OCR engine hands over undecoded): the       *)
(*     marker "bytes" followed by its characters.                          *)
(*   - the outcome of a call: [raised, value]; raised is TRUE when an      *)
(*     exception leaves the call.                                          *)
(*   - a score (float in [0,1]): the fraction [num, den].                  *)
(***************************************************************************)
Bytes(s) == <<"bytes">> \o s

IsBytes(x) == x # <<>> /\ x[1] = "bytes"

\* Python truthiness of a str or bytes value
Truthy(x) == x # <<>> /\ x # <<"bytes">>

Return(v) == [raised |-> FALSE, value |-> v]

Raise == [raised |-> TRUE, value |-> None]

\* \w of the re module
IsWordChar(c) == IsAlnum(c) \/ c = "_"

\* \b of the re module at position i of s (between s[i-1] and s[i])
WordBoundary(s, i) == (i > 1 /\ IsWordChar(s[i - 1])) # (i <= Len(s) /\ IsWordChar(s[i]))

\* re.compile(rf'\b{re.escape(keyword)}\b', re.IGNORECASE) matches s at position p
MatchesAt(s, keyword, p) ==
    /\ p + Len(keyword) - 1 <= Len(s)
    /\ WordBoundary(s, p)
    /\ WordBoundary(s, p + Len(keyword))
    /\ Lower(SubSeq(s, p, p + Len(keyword) - 1)) = Lower(keyword)

\* the positions of s where \b holds and a character follows: a pattern that
\* begins with \b matches nowhere else
Boundaries(s) == {p \in 1..Len(s) : WordBoundary(s, p)}

\* len(pattern.findall(s)): the non-overlapping matches, left to right, from
\* position p on
RECURSIVE FindAllFrom(_, _, _, _)
FindAllFrom(s, keyword, bounds, p) ==
    LET found == {q \in bounds : q >= p /\ MatchesAt(s, keyword, q)}
    IN  IF found = {} THEN 0
        ELSE 1 + FindAllFrom(s, keyword, bounds, (CHOOSE q \in found : \A r \in found : q <= r) + Len(keyword))

RECURSIVE TotalMatchesAt(_, _, _)
TotalMatchesAt(s, bounds, patterns) ==
    IF patterns = <<>> THEN 0
    ELSE FindAllFrom(s, Head(patterns), bounds, 1) + TotalMatchesAt(s, bounds, Tail(patterns))

\* sum of len(pattern.findall(s)) over the patterns of one category
TotalMatches(s, patterns) == TotalMatchesAt(s, Boundaries(s), patterns)

\* a in b, for two str
IsSubstring(a, b) == \E p \in 1..(Len(b) - Len(a) + 1) : SubSeq(b, p, p + Len(a) - 1) = a

\* " ".join(parts), for a list of str
RECURSIVE Join(_)
Join(parts) ==
    IF parts = <<>> THEN <<>>
    ELSE IF Len(parts) = 1 THEN Head(parts)
    ELSE Head(parts) \o <<" ">> \o Join(Tail(parts))

\* " ".join(parts) raises TypeError when a part is not a str
JoinRaises(parts) == \E k \in 1..Len(parts) : IsBytes(parts[k])

\* len(s.split())
WordCount(s) == Cardinality({p \in 1..Len(s) : ~IsSpace(s[p]) /\ (p = 1 \/ IsSpace(s[p - 1]))})

\* item.strip(), of a str or of a bytes object
StripItem(item) == IF IsBytes(item) THEN Bytes(Strip(Tail(item))) ELSE Strip(item)

\* [item.strip() for item in self.items if item.strip()]
RECURSIVE CleanItems(_)
CleanItems(items) ==
    IF items = <<>> THEN <<>>
    ELSE IF Truthy(StripItem(Head(items))) THEN <<StripItem(Head(items))>> \o CleanItems(Tail(items))
    ELSE CleanItems(Tail(items))

\* Receipt(vendor=.., amount=.., items=.., ocr_text=..) after __post_init__
ReceiptWithItems(vendor, amount, items, ocr_text) ==
    [vendor   |-> Receipt(0, vendor, amount, None, ocr_text).vendor,
     amount   |-> Receipt(0, vendor, amount, None, ocr_text).amount,
     items    |-> CleanItems(items),
     ocr_text |-> ocr_text]

\* _get_default_categories
get_default_categories == <<
     [name |-> "Office Supplies",
      keywords |-> <<<<"p", "a", "p", "e", "r">>, <<"p", "e", "n">>, <<"p", "e", "n", "c", "i", "l">>, <<"s", "t", "a", "p", "l", "e", "r">>, <<"f", "o", "l", "d", "e", "r">>, <<"b", "i", "n", "d", "e", "r">>, <<"s", "u", "p", "p", "l", "i", "e", "s">>>>,
      vendors |-> <<<<"s", "t", "a", "p", "l", "e", "s">>, <<"o", "f", "f", "i", "c", "e", " ", "d", "e", "p", "o", "t">>, <<"b", "e", "s", "t", " ", "b", "u", "y">>>>],
     [name |-> "Meals & Entertainment",
      keywords |-> <<<<"r", "e", "s", "t", "a", "u", "r", "a", "n", "t">>, <<"f", "o", "o", "d">>, <<"l", "u", "n", "c", "h">>, <<"d", "i", "n", "n", "e", "r">>, <<"c", "o", "f", "f", "e", "e">>, <<"c", "a", "t", "e", "r", "i", "n", "g">>>>,
      vendors |-> <<<<"m", "c", "d", "o", "n", "a", "l", "d", "s">>, <<"s", "t", "a", "r", "b", "u", "c", "k", "s">>, <<"s", "u", "b", "w", "a", "y">>, <<"d", "o", "m", "i", "n", "o", "s">>>>],
     [name |-> "Travel",
      keywords |-> <<<<"h", "o", "t", "e", "l">>, <<"f", "l", "i", "g", "h", "t">>, <<"a", "i", "r", "l", "i", "n", "e">>, <<"u", "b", "e", "r">>, <<"t", "a", "x", "i">>, <<"g", "a", "s">>, <<"p", "a", "r", "k", "i", "n", "g">>>>,
      vendors |-> <<<<"h", "i", "l", "t", "o", "n">>, <<"m", "a", "r", "r", "i", "o", "t", "t">>, <<"d", "e", "l", "t", "a">>, <<"u", "n", "i", "t", "e", "d">>, <<"s", "h", "e", "l", "l">>, <<"e", "x", "x", "o", "n">>>>],
     [name |-> "Technology",
      keywords |-> <<<<"c", "o", "m", "p", "u", "t", "e", "r">>, <<"s", "o", "f", "t", "w", "a", "r", "e">>, <<"l", "a", "p", "t", "o", "p">>, <<"p", "h", "o", "n", "e">>, <<"t", "a", "b", "l", "e", "t">>, <<"t", "e", "c", "h">>>>,
      vendors |-> <<<<"a", "p", "p", "l", "e">>, <<"m", "i", "c", "r", "o", "s", "o", "f", "t">>, <<"a", "m", "a", "z", "o", "n">>, <<"b", "e", "s", "t", " ", "b", "u", "y">>>>],
     [name |-> "Marketing",
      keywords |-> <<<<"a", "d", "v", "e", "r", "t", "i", "s", "i", "n", "g">>, <<"m", "a", "r", "k", "e", "t", "i", "n", "g">>, <<"p", "r", "o", "m", "o", "t", "i", "o", "n">>, <<"p", "r", "i", "n", "t">>, <<"d", "e", "s", "i", "g", "n">>>>,
      vendors |-> <<<<"f", "a", "c", "e", "b", "o", "o", "k">>, <<"g", "o", "o", "g", "l", "e">>, <<"a", "d", "o", "b", "e">>>>],
     [name |-> "Utilities",
      keywords |-> <<<<"e", "l", "e", "c", "t", "r", "i", "c">>, <<"w", "a", "t", "e", "r">>, <<"g", "a", "s">>, <<"i", "n", "t", "e", "r", "n", "e", "t">>, <<"p", "h", "o", "n", "e">>, <<"u", "t", "i", "l", "i", "t", "y">>>>,
      vendors |-> <<<<"v", "e", "r", "i", "z", "o", "n">>, <<"a", "t", "t">>, <<"c", "o", "m", "c", "a", "s", "t">>>>],
     [name |-> "Professional Services",
      keywords |-> <<<<"c", "o", "n", "s", "u", "l", "t", "a", "n", "t">>, <<"l", "e", "g", "a", "l">>, <<"a", "c", "c", "o", "u", "n", "t", "i", "n", "g">>, <<"p", "r", "o", "f", "e", "s", "s", "i", "o", "n", "a", "l">>, <<"s", "e", "r", "v", "i", "c", "e">>>>,
      vendors |-> <<<<"l", "a", "w">>, <<"c", "p", "a">>, <<"c", "o", "n", "s", "u", "l", "t", "i", "n", "g">>>>],
     [name |-> "Miscellaneous",
      keywords |-> <<<<"m", "i", "s", "c">>, <<"o", "t", "h", "e", "r">>, <<"v", "a", "r", "i", "o", "u", "s">>>>,
      vendors |-> <<>>]
    >>

\* the body of the try block of _load_expense_categories: the default store when
\* the file does not exist, the parsed content when it is well-formed, and an
\* exception when exists(), open() or json.load() raises
ReadConfig(file) ==
    IF file.state = "missing" THEN Return(get_default_categories)
    ELSE IF file.state = "wellformed" THEN Return(file.content)
    ELSE Raise

load_expense_categories_Unguarded(file) == ReadConfig(file)

\* _load_expense_categories: any exception is logged and answered with the defaults
load_expense_categories(file) ==
    IF ReadConfig(file).raised THEN Return(get_default_categories) ELSE ReadConfig(file)

Put_KeepFirst(mappings, key, category) ==
    IF \E k \in 1..Len(mappings) : mappings[k].vendor = key
    THEN mappings
    ELSE Append(mappings, [vendor |-> key, category |-> category])

\* mappings[key] = category of a dict in insertion order
Put(mappings, key, category) ==
    IF \E k \in 1..Len(mappings) : mappings[k].vendor = key
    THEN [k \in 1..Len(mappings) |-> IF mappings[k].vendor = key THEN [vendor |-> key, category |-> category] ELSE mappings[k]]
    ELSE Append(mappings, [vendor |-> key, category |-> category])

RECURSIVE PutVendors(_, _, _)
PutVendors(mappings, vendors, category) ==
    IF vendors = <<>> THEN mappings
    ELSE PutVendors(Put(mappings, Lower(Head(vendors)), category), Tail(vendors), category)

RECURSIVE MappingsFrom(_, _)
MappingsFrom(mappings, store) ==
    IF store = <<>> THEN mappings
    ELSE MappingsFrom(PutVendors(mappings, Head(store).vendors, Head(store).name), Tail(store))

\* _load_vendor_mappings
load_vendor_mappings(store) == MappingsFrom(<<>>, store)

\* self.keyword_patterns.get(category, []): the keywords of the category, each
\* compiled as a whole-word, case-insensitive pattern (see MatchesAt)
keyword_patterns(store, category) ==
    IF \E k \in 1..Len(store) : store[k].name = category
    THEN store[CHOOSE k \in 1..Len(store) : store[k].name = category].keywords
    ELSE <<>>

\* self.categories.get(category, {}).get("vendors", [])
category_vendors(store, category) ==
    IF \E k \in 1..Len(store) : store[k].name = category
    THEN store[CHOOSE k \in 1..Len(store) : store[k].name = category].vendors
    ELSE <<>>

\* list(self.categories.keys())
CategoryNames(store) == [k \in 1..Len(store) |-> store[k].name]

\* the first key of a non-empty set of positions of a dict in insertion order
First(S) == CHOOSE k \in S : \A j \in S : k <= j

\* _categorize_by_vendor: the category of the exact entry, else of the first entry
\* that contains the vendor name or is contained in it
categorize_by_vendor(vendor, mappings) ==
    LET vendor_lower == Lower(vendor)
        direct  == {k \in 1..Len(mappings) : mappings[k].vendor = vendor_lower}
        partial == {k \in 1..Len(mappings) :
                        IsSubstring(mappings[k].vendor, vendor_lower) \/ IsSubstring(vendor_lower, mappings[k].vendor)}
    IN  IF direct # {} THEN Return(Some(mappings[First(direct)].category))
        ELSE IF partial # {} THEN Return(Some(mappings[First(partial)].category))
        ELSE Return(None)

RECURSIVE MatchScoresAt(_, _, _)
MatchScoresAt(s, bounds, store) ==
    IF store = <<>> THEN <<>>
    ELSE <<TotalMatchesAt(s, bounds, Head(store).keywords)>> \o MatchScoresAt(s, bounds, Tail(store))

\* the number of keyword matches in s of each category of the store, in store order
MatchScores(s, store) == MatchScoresAt(s, Boundaries(s), store)

\* max(category_scores, key=category_scores.get) over the positions S: the first
\* position holding the highest score
FirstMax(scores, S) == First({k \in S : \A j \in S : scores[j] <= scores[k]})

categorize_by_items_LastMax(items, store) ==
    LET scores   == MatchScores(Lower(Join(items)), store)
        positive == {k \in 1..Len(store) : scores[k] > 0}
        best     == {k \in positive : \A j \in positive : scores[j] <= scores[k]}
    IN  IF JoinRaises(items) THEN Raise
        ELSE IF positive # {} THEN Return(Some(store[CHOOSE k \in best : \A j \in best : j <= k].name))
        ELSE Return(None)

\* _categorize_by_items: the category whose keywords match the joined item
\* descriptions most often, among those that match at all
categorize_by_items(items, store) ==
    LET scores   == MatchScores(Lower(Join(items)), store)
        positive == {k \in 1..Len(store) : scores[k] > 0}
    IN  IF JoinRaises(items) THEN Raise
        ELSE IF positive # {} THEN Return(Some(store[FirstMax(scores, positive)].name))
        ELSE Return(None)

\* text_parts of _categorize_by_text_analysis
text_parts(r) ==
    (IF TruthyStr(r.vendor) THEN <<Val(r.vendor)>> ELSE <<>>)
        \o r.items
        \o (IF Truthy(r.ocr_text) THEN <<r.ocr_text>> ELSE <<>>)

\* _categorize_by_text_analysis: matches per word of the combined text, times 100,
\* must exceed 0.1 for the best category
categorize_by_text_analysis(r, store) ==
    LET combined_text == Lower(Join(text_parts(r)))
        words  == WordCount(combined_text)
        scores == MatchScores(combined_text, store)
        best   == FirstMax(scores, 1..Len(store))
    IN  IF JoinRaises(text_parts(r)) THEN Raise
        ELSE IF Strip(combined_text) = <<>> THEN Return(None)
        ELSE IF store # <<>> /\ scores[best] * 1000 > words THEN Return(Some(store[best].name))
        ELSE Return(None)

categorize_by_amount_Inclusive(amount) ==
    IF ~TruthyNum(amount) THEN Return(None)
    ELSE IF Val(amount) < 10000 THEN Return(Some("Office Supplies"))
    ELSE IF Val(amount) >= 500000 THEN Return(Some("Technology"))
    ELSE Return(None)

\* _categorize_by_amount (amounts in thousandths)
categorize_by_amount(amount) ==
    IF ~TruthyNum(amount) THEN Return(None)
    ELSE IF Val(amount) < 10000 THEN Return(Some("Office Supplies"))
    ELSE IF Val(amount) > 500000 THEN Return(Some("Technology"))
    ELSE Return(None)

\* _get_vendor_confidence, in tenths
get_vendor_confidence(vendor, category, store) ==
    LET vendor_lower == Lower(vendor)
        vs == category_vendors(store, category)
    IN  IF vendor = <<>> THEN 0
        ELSE IF \E k \in 1..Len(vs) : Lower(vs[k]) = vendor_lower THEN 9
        ELSE IF \E k \in 1..Len(vs) : IsSubstring(Lower(vs[k]), vendor_lower) \/ IsSubstring(vendor_lower, Lower(vs[k])) THEN 7
        ELSE 1

\* _get_items_confidence as the fraction min(total_matches, len(items)) / len(items)
get_items_confidence(items, category, store) ==
    IF items = <<>> THEN Return([num |-> 0, den |-> 1])
    ELSE IF JoinRaises(items) THEN Raise
    ELSE Return([num |-> Min(TotalMatches(Lower(Join(items)), keyword_patterns(store, category)), Len(items)),
                 den |-> Len(items)])

\* _get_text_confidence, in tenths; a str pattern cannot search a bytes object
get_text_confidence(r, category, store) ==
    LET patterns == keyword_patterns(store, category)
        vendor_matches == IF TruthyStr(r.vendor) THEN TotalMatches(Lower(Val(r.vendor)), patterns) ELSE 0
        ocr_matches    == IF Truthy(r.ocr_text) THEN TotalMatches(Lower(r.ocr_text), patterns) ELSE 0
    IN  IF patterns = <<>> THEN Return(0)
        ELSE IF IsBytes(r.ocr_text) /\ Truthy(r.ocr_text) THEN Raise
        ELSE Return(Min(2 * (vendor_matches + ocr_matches), 10))

\* sum(confidence_factors) / len(confidence_factors) as a fraction: the vendor
\* score when there is a vendor, the items score when there are items, and
\* always the text score
MeanOfFactors(hasVendor, vendor_score, hasItems, items_score, text_score) ==
    LET L == IF hasItems THEN items_score.den ELSE 1
        n == (IF hasVendor THEN 1 ELSE 0) + (IF hasItems THEN 1 ELSE 0) + 1
    IN  [num |-> (IF hasVendor THEN L * vendor_score ELSE 0)
                 + (IF hasItems THEN 10 * items_score.num ELSE 0)
                 + L * text_score,
         den |-> 10 * L * n]

\* get_category_confidence
get_category_confidence(r, category, store) ==
    LET hasVendor == TruthyStr(r.vendor)
        hasItems  == r.items # <<>>
        items_score == get_items_confidence(r.items, category, store)
        text_score  == get_text_confidence(r, category, store)
    IN  IF hasItems /\ items_score.raised THEN Raise
        ELSE IF text_score.raised THEN Raise
        ELSE Return(MeanOfFactors(hasVendor, IF hasVendor THEN get_vendor_confidence(Val(r.vendor), category, store) ELSE 0,
                                  hasItems, items_score.value, text_score.value))

\* a < b, a <= b for two scores
ScoreLess(a, b) == a.num * b.den < b.num * a.den

ScoreLeq(a, b) == a.num * b.den <= b.num * a.den

\* sorted(category_scores.items(), key=lambda x: x[1], reverse=True): one entry
\* put into an already sorted list
Insert_BeforeEqual(entry, sorted) ==
    LET before == {k \in 1..Len(sorted) : ScoreLess(entry.score, sorted[k].score)}
    IN  SubSeq(sorted, 1, Cardinality(before)) \o <<entry>> \o SubSeq(sorted, Cardinality(before) + 1, Len(sorted))

\* the sort is stable also with reverse=True: an entry goes behind the entries
\* of equal score that precede it in the dict
Insert(entry, sorted) ==
    LET before == {k \in 1..Len(sorted) : ScoreLeq(entry.score, sorted[k].score)}
    IN  SubSeq(sorted, 1, Cardinality(before)) \o <<entry>> \o SubSeq(sorted, Cardinality(before) + 1, Len(sorted))

RECURSIVE SortedFrom(_, _)
SortedFrom(sorted, entries) ==
    IF entries = <<>> THEN sorted ELSE SortedFrom(Insert(Head(entries), sorted), Tail(entries))

\* lst[:top_n]
Slice(lst, top_n) ==
    IF top_n >= 0 THEN SubSeq(lst, 1, Min(top_n, Len(lst))) ELSE SubSeq(lst, 1, Max(Len(lst) + top_n, 0))

\* category_scores of suggest_categories: the outcome of get_category_confidence
\* for each key of self.categories, in store order
RECURSIVE ScoreEach(_, _, _)
ScoreEach(r, names, store) ==
    IF names = <<>> THEN <<>>
    ELSE <<[category |-> Head(names), outcome |-> get_category_confidence(r, Head(names), store)]>>
             \o ScoreEach(r, Tail(names), store)

\* suggest_categories
suggest_categories(r, top_n, store) ==
    LET outcomes == ScoreEach(r, CategoryNames(store), store)
        category_scores == [k \in 1..Len(outcomes) |-> [category |-> outcomes[k].category, score |-> outcomes[k].outcome.value]]
    IN  IF \E k \in 1..Len(outcomes) : outcomes[k].outcome.raised THEN Raise
        ELSE Return(Slice(SortedFrom(<<>>, category_scores), top_n))

(***************************************************************************)
(* Categorizer inputs                                                      *)
(***************************************************************************)
Staples == <<"S", "t", "a", "p", "l", "e", "s">>

BestBuy == <<"B", "e", "s", "t", " ", "B", "u", "y">>

ShellOil == <<"S", "h", "e", "l", "l", " ", "O", "i", "l">>

App == <<"A", "p", "p">>

CoffeeHut == <<"C", "o", "f", "f", "e", "e", " ", "H", "u", "t">>

Deli == <<" ", "D", "e", "l", "i">>

\* no vendor; exact matches in another case; a name containing a known vendor
\* and one contained in a known vendor; a name holding a keyword; an unknown name
CatVendors == {None, Some(Staples), Some(BestBuy), Some(ShellOil), Some(App), Some(CoffeeHut), Some(Deli), Some(Acme)}

\* thousandths: unknown, 0, -3.00, 9.99, 10.00, 500.00, 500.01
CatAmounts == {None, Some(0), Some(-3000), Some(9990), Some(10000), Some(500000), Some(500010)}

CatItems == {<<>>,
             <<<<"P", "a", "p", "e", "r">>, <<"p", "e", "n", " ">>>>,
             <<<<"p", "h", "o", "n", "e">>>>,
             <<<<"w", "i", "d", "g", "e", "t">>, <<" ", " ">>>>,
             <<Bytes(<<"l", "u", "n", "c", "h">>)>>}

CatOcrTexts == {<<>>, <<"c", "o", "f", "f", "e", "e", " ", "a", "n", "d", " ", "l", "u", "n", "c", "h">>, <<"T", "O", "T", "A", "L", " ", "1", "2">>, Bytes(<<"p", "a", "p", "e", "r">>)}

\* a well-formed config/expense_categories.json
CustomCategories == <<
     [name |-> "Food",
      keywords |-> <<<<"l", "u", "n", "c", "h">>, <<"c", "o", "f", "f", "e", "e">>>>,
      vendors |-> <<<<"D", "e", "l", "i">>>>],
     [name |-> "Fuel",
      keywords |-> <<<<"g", "a", "s">>>>,
      vendors |-> <<>>]
    >>

\* config/expense_categories.json: absent, not parseable (json.load raises), or well-formed
ConfigFiles == {[state |-> "missing", content |-> <<>>],
                [state |-> "malformed", content |-> <<>>],
                [state |-> "wellformed", content |-> CustomCategories]}

MaxTopN == 9

\* top_n of suggest_categories
TopNs == -1..MaxTopN

\* the category argument of get_category_confidence: the names of both stores,
\* the fallback name and a name of no store
CategoryArgs == {get_default_categories[k].name : k \in 1..Len(get_default_categories)}
                    \cup {CustomCategories[k].name : k \in 1..Len(CustomCategories)}
                    \cup {"Uncategorized", "Groceries"}

(***************************************************************************)
(* Categorizer actions                                                     *)
(***************************************************************************)
\* ExpenseCategorizer.__init__: self.categories = self._load_expense_categories()
LoadExpenseCategories ==
    /\ cpc = "init"
    /\ IF load_expense_categories(config_file).raised
       THEN cpc' = "raised" /\ categories' = None
       ELSE cpc' = "mappings" /\ categories' = load_expense_categories(config_file).value
    /\ UNCHANGED <<config_file, vendor_mappings, arg, ret>>
    /\ UNCHANGED <<valvars, rulevars, parvars>>

\* ExpenseCategorizer.__init__: self.vendor_mappings = self._load_vendor_mappings()
\* (self.keyword_patterns is the operator keyword_patterns of the store)
LoadVendorMappings ==
    /\ cpc = "mappings"
    /\ vendor_mappings' = load_vendor_mappings(categories)
    /\ cpc' = "idle"
    /\ UNCHANGED <<config_file, categories, arg, ret>>
    /\ UNCHANGED <<valvars, rulevars, parvars>>

\* the constructed object is called: for the first time, or once more with the
\* arguments of the call that has just returned
Callable(call, args) == IF cpc = "idle" THEN TRUE ELSE cpc = "returned" /\ ret.call = call /\ ret.args = args

Returned(call, args, outcome) == [call |-> call, args |-> args, raised |-> outcome.raised, value |-> outcome.value]

\* categorize_expense is entered
CategorizeExpense ==
    /\ Callable("categorize_expense", <<>>)
    /\ cpc' = "vendor"
    /\ ret' = None
    /\ UNCHANGED <<config_file, categories, vendor_mappings, arg>>
    /\ UNCHANGED <<valvars, rulevars, parvars>>

\* one signal of categorize_expense: return its category, go on to the next
\* signal when it has none, enter the except block when it raises
Signal(applies, outcome, next) ==
    /\ IF applies /\ outcome.raised THEN cpc' = "except" /\ ret' = ret
       ELSE IF applies /\ outcome.value # None
            THEN cpc' = "returned" /\ ret' = Returned("categorize_expense", <<>>, Return(Val(outcome.value)))
       ELSE cpc' = next /\ ret' = ret
    /\ UNCHANGED <<config_file, categories, vendor_mappings, arg>>
    /\ UNCHANGED <<valvars, rulevars, parvars>>

CategorizeByVendor_FallThrough ==
    /\ cpc = "vendor"
    /\ Signal(FALSE, categorize_by_vendor(<<>>, vendor_mappings), "items")

\* if receipt.vendor: category = self._categorize_by_vendor(receipt.vendor)
CategorizeByVendor ==
    /\ cpc = "vendor"
    /\ Signal(TruthyStr(arg.vendor), categorize_by_vendor(IF TruthyStr(arg.vendor) THEN Val(arg.vendor) ELSE <<>>, vendor_mappings), "items")

\* if receipt.items: category = self._categorize_by_items(receipt.items)
CategorizeByItems ==
    /\ cpc = "items"
    /\ Signal(arg.items # <<>>, categorize_by_items(arg.items, categories), "text")

\* category = self._categorize_by_text_analysis(receipt)
CategorizeByText ==
    /\ cpc = "text"
    /\ Signal(TRUE, categorize_by_text_analysis(arg, categories), "amount")

\* category = self._categorize_by_amount(receipt.amount)
CategorizeByAmount ==
    /\ cpc = "amount"
    /\ Signal(TRUE, categorize_by_amount(arg.amount), "default")

\* return "Miscellaneous"
CategorizeDefault ==
    /\ cpc = "default"
    /\ cpc' = "returned"
    /\ ret' = Returned("categorize_expense", <<>>, Return("Miscellaneous"))
    /\ UNCHANGED <<config_file, categories, vendor_mappings, arg>>
    /\ UNCHANGED <<valvars, rulevars, parvars>>

CategorizeExcept_Reraise ==
    /\ cpc = "except"
    /\ cpc' = "returned"
    /\ ret' = Returned("categorize_expense", <<>>, Raise)
    /\ UNCHANGED <<config_file, categories, vendor_mappings, arg>>
    /\ UNCHANGED <<valvars, rulevars, parvars>>

\* except Exception: return "Uncategorized"
CategorizeExcept ==
    /\ cpc = "except"
    /\ cpc' = "returned"
    /\ ret' = Returned("categorize_expense", <<>>, Return("Uncategorized"))
    /\ UNCHANGED <<config_file, categories, vendor_mappings, arg>>
    /\ UNCHANGED <<valvars, rulevars, parvars>>

\* one call of get_category_confidence(receipt, category)
GetCategoryConfidence ==
    /\ \E category \in CategoryArgs :
        /\ Callable("get_category_confidence", <<category>>)
        /\ ret' = Returned("get_category_confidence", <<category>>, get_category_confidence(arg, category, categories))
    /\ cpc' = "returned"
    /\ UNCHANGED <<config_file, categories, vendor_mappings, arg>>
    /\ UNCHANGED <<valvars, rulevars, parvars>>

\* one call of suggest_categories(receipt, top_n)
SuggestCategories ==
    /\ \E top_n \in TopNs :
        /\ Callable("suggest_categories", <<top_n>>)
        /\ ret' = Returned("suggest_categories", <<top_n>>, suggest_categories(arg, top_n, categories))
    /\ cpc' = "returned"
    /\ UNCHANGED <<config_file, categories, vendor_mappings, arg>>
    /\ UNCHANGED <<valvars, rulevars, parvars>>

NextCat ==
    \/ LoadExpenseCategories
    \/ LoadVendorMappings
    \/ CategorizeExpense
    \/ CategorizeByVendor
    \/ CategorizeByItems
    \/ CategorizeByText
    \/ CategorizeByAmount
    \/ CategorizeDefault
    \/ CategorizeExcept

\* the constructor followed by calls of get_category_confidence and suggest_categories
NextScore ==
    \/ LoadExpenseCategories
    \/ LoadVendorMappings
    \/ GetCategoryConfidence
    \/ SuggestCategories

\* no validate_batch call is in progress: the categorizer does not use the validator
NoValidator ==
    /\ receipts = <<>>
    /\ results = <<>>
    /\ result = ValidationResult
    /\ pc = "absent"
    /\ idx = 1

\* an ExpenseCategorizer under construction from a configuration file, and the
\* record the calls that follow are about
Construct(file, r) ==
    /\ config_file = file
    /\ categories = None
    /\ vendor_mappings = None
    /\ arg = r
    /\ cpc = "init"
    /\ ret = None
    /\ NoValidator
    /\ NoRules
    /\ NoCalls

\* any configuration file and any record built by the Receipt constructor
InitCat ==
    \E file \in ConfigFiles, v \in CatVendors, a \in CatAmounts, i \in CatItems, o \in CatOcrTexts :
        Construct(file, ReceiptWithItems(v, a, i, o))

\* categorize_expense, step by step
SpecCat == InitCat /\ [][NextCat]_vars

\* the scoring calls do not read the amount, and the three states of the file that
\* lead to the built-in store lead to the same scores
ScoreFiles == {file \in ConfigFiles : file.state \in {"missing", "wellformed"}}

InitScore ==
    \E file \in ScoreFiles, v \in CatVendors, i \in CatItems, o \in CatOcrTexts :
        Construct(file, ReceiptWithItems(v, None, i, o))

SpecScore == InitScore /\ [][NextScore]_vars

(***************************************************************************)
(* Rule engine (src/src/models/expense.py, ExpenseRule)                    *)
(*                                                                         *)
(* Encoding of Python values:                                              *)
(*   - a value of a dict: [t |-> type name, s |-> characters, n |-> int],  *)
(*     of type "str" (s holds the text, also of a category name), "int"    *)
(*     (n holds the number), "bool" (n is 1 or 0) or "none";               *)
(*   - a dict: the sequence of its [key, value] items in insertion order;  *)
(*   - an item of self.conditions: the field, whether the condition is a   *)
(*     dict, the plain value when it is not, and one Optional field for    *)
(*     each of the keys min, max, contains, equals (None: key not given).  *)
(***************************************************************************)
StrValue(s) == [t |-> "str", s |-> s, n |-> 0]

IntValue(n) == [t |-> "int", s |-> <<>>, n |-> n]

BoolValue(b) == [t |-> "bool", s |-> <<>>, n |-> IF b THEN 1 ELSE 0]

NoneValue == [t |-> "none", s |-> <<>>, n |-> 0]

\* a == b for two values of the types above (True == 1 and False == 0)
PyEq(a, b) == IF a.t \in {"int", "bool"} /\ b.t \in {"int", "bool"} THEN a.n = b.n ELSE a = b

\* str(n) of a non-negative int
RECURSIVE DecimalDigits(_)
DecimalDigits(n) == IF n < 10 THEN <<Digits[n + 1]>> ELSE Append(DecimalDigits(n \div 10), Digits[(n % 10) + 1])

\* str(x), which is also what an f-string field {x} produces
PyStr(x) ==
    CASE x.t = "str" -> x.s
      [] x.t = "int" -> IF x.n < 0 THEN <<"-">> \o DecimalDigits(-x.n) ELSE DecimalDigits(x.n)
      [] x.t = "bool" -> IF x.n = 1 THEN <<"T", "r", "u", "e">> ELSE <<"F", "a", "l", "s", "e">>
      [] x.t = "none" -> <<"N", "o", "n", "e">>

\* key in d
HasKey(d, key) == \E k \in 1..Len(d) : d[k].key = key

\* d[key]
Item(d, key) == d[CHOOSE k \in 1..Len(d) : d[k].key = key].value

\* d[key] = value: an existing key keeps its place, a new key comes last
SetItem(d, key, value) ==
    IF HasKey(d, key)
    THEN [k \in 1..Len(d) |-> IF d[k].key = key THEN [key |-> key, value |-> value] ELSE d[k]]
    ELSE Append(d, [key |-> key, value |-> value])

\* a < b is defined: the bounds of the rules below are ints, and comparing a str or
\* None with an int raises TypeError
Ordered(a, b) == a.t = "int" /\ b.t = "int"

\* the four tests of a compound condition, in the order of the code: "pass" goes on
\* to the next test, "fail" is `return False`, "raise" an exception
MinTest(value, condition) ==
    IF condition.min = None THEN "pass"
    ELSE IF ~Ordered(value, Val(condition.min)) THEN "raise"
    ELSE IF value.n < Val(condition.min).n THEN "fail"
    ELSE "pass"

MaxTest(value, condition) ==
    IF condition.max = None THEN "pass"
    ELSE IF ~Ordered(value, Val(condition.max)) THEN "raise"
    ELSE IF value.n > Val(condition.max).n THEN "fail"
    ELSE "pass"

\* condition['contains'].lower() not in str(value).lower()
ContainsTest(value, condition) ==
    IF condition.contains = None THEN "pass"
    ELSE IF Val(condition.contains).t # "str" THEN "raise"
    ELSE IF ~IsSubstring(Lower(Val(condition.contains).s), Lower(PyStr(value))) THEN "fail"
    ELSE "pass"

EqualsTest(value, condition) ==
    IF condition.equals = None THEN "pass"
    ELSE IF ~PyEq(value, Val(condition.equals)) THEN "fail"
    ELSE "pass"

\* the first test of tests that does not pass, "pass" when all do
RECURSIVE FirstDecisive(_)
FirstDecisive(tests) ==
    IF tests = <<>> THEN "pass"
    ELSE IF Head(tests) # "pass" THEN Head(tests)
    ELSE FirstDecisive(Tail(tests))

\* the body of the loop of applies_to for one item of self.conditions
TestCondition(c, data) ==
    IF ~HasKey(data, c.field) THEN "fail"
    ELSE LET value == Item(data, c.field) IN
         IF c.dict
         THEN FirstDecisive(<<MinTest(value, c), MaxTest(value, c), ContainsTest(value, c), EqualsTest(value, c)>>)
         ELSE IF ~PyEq(value, c.value) THEN "fail"
         ELSE "pass"

RECURSIVE TestConditions(_, _)
TestConditions(conditions, data) ==
    IF conditions = <<>> THEN <<>>
    ELSE <<TestCondition(Head(conditions), data)>> \o TestConditions(Tail(conditions), data)

\* ExpenseRule.applies_to
applies_to(r, data) ==
    LET decisive == FirstDecisive(TestConditions(r.conditions, data)) IN
    IF decisive = "raise" THEN Raise
    ELSE Return(decisive = "pass")

\* one iteration of the loop of apply_actions: the branch for one item of
\* self.actions, on the dict passed in
ApplyAction(data, a) ==
    CASE a.action = "set_category" -> SetItem(data, "category", a.value)
      [] a.action = "set_account_code" -> SetItem(data, "account_code", a.value)
      [] a.action = "set_department" -> SetItem(data, "department", a.value)
      [] a.action = "require_approval" -> SetItem(data, "requires_review", a.value)
      [] a.action = "add_note" ->
            LET current_notes == IF HasKey(data, "notes") THEN Item(data, "notes") ELSE StrValue(<<>>)
            IN  SetItem(data, "notes", StrValue(Strip(PyStr(current_notes) \o <<" ">> \o PyStr(a.value))))
      [] OTHER -> data

(***************************************************************************)
(* Rule engine inputs                                                      *)
(***************************************************************************)
\* field: {min: ..., max: ..., contains: ..., equals: ...}, each key optional
Compound(field, min, max, contains, equals) ==
    [field |-> field, dict |-> TRUE, value |-> NoneValue, min |-> min, max |-> max, contains |-> contains, equals |-> equals]

\* field: value
Plain(field, value) ==
    [field |-> field, dict |-> FALSE, value |-> value, min |-> None, max |-> None, contains |-> None, equals |-> None]

Action(action, value) == [action |-> action, value |-> value]

Entry(key, value) == [key |-> key, value |-> value]

AcmeCorp == <<"A", "c", "m", "e", " ", "C", "o", "r", "p">>

\* self.conditions: {}, {'category': 'Travel'}, {'category': {'equals': 'Travel'}},
\* {'amount': {'min': 100}}, {'amount': {'min': 100, 'max': 500}}, {'amount': {}},
\* {'vendor': {'contains': 'ACME'}}, {'department': 'Sales'},
\* {'vendor': {'contains': 'acme'}, 'amount': {'max': 500}}
RuleConditions ==
    {<<>>,
     <<Plain("category", StrValue(<<"T", "r", "a", "v", "e", "l">>))>>,
     <<Compound("category", None, None, None, Some(StrValue(<<"T", "r", "a", "v", "e", "l">>)))>>,
     <<Compound("amount", Some(IntValue(100)), None, None, None)>>,
     <<Compound("amount", Some(IntValue(100)), Some(IntValue(500)), None, None)>>,
     <<Compound("amount", None, None, None, None)>>,
     <<Compound("vendor", None, None, Some(StrValue(<<"A", "C", "M", "E">>)), None)>>,
     <<Plain("department", StrValue(<<"S", "a", "l", "e", "s">>))>>,
     <<Compound("vendor", None, None, Some(StrValue(<<"a", "c", "m", "e">>)), None),
       Compound("amount", None, Some(IntValue(500)), None, None)>>}

NoteX == StrValue(<<"x">>)

\* self.actions: {}, the five actions in the order of the code's branches and in
\* the opposite order, and maps of one or two actions
RuleActions ==
    {<<>>,
     <<Action("set_category", StrValue(<<"T", "r", "a", "v", "e", "l">>)), Action("set_account_code", StrValue(<<"6", "0", "0", "0">>)),
       Action("set_department", StrValue(<<"S", "a", "l", "e", "s">>)), Action("require_approval", BoolValue(TRUE)),
       Action("add_note", NoteX)>>,
     <<Action("add_note", NoteX), Action("require_approval", BoolValue(TRUE)),
       Action("set_department", StrValue(<<"S", "a", "l", "e", "s">>)), Action("set_account_code", StrValue(<<"6", "0", "0", "0">>)),
       Action("set_category", StrValue(<<"T", "r", "a", "v", "e", "l">>))>>,
     <<Action("set_category", StrValue(<<"T", "r", "a", "v", "e", "l">>)), Action("add_note", NoteX)>>,
     <<Action("add_note", NoteX), Action("set_category", StrValue(<<"T", "r", "a", "v", "e", "l">>))>>,
     <<Action("require_approval", BoolValue(FALSE))>>,
     <<Action("notify", StrValue(<<"S", "a", "l", "e", "s">>))>>}

\* expense_data: {}, three dicts with vendor, amount, category and notes, and the
\* fields to_dict() gives for a receipt with no vendor and no amount
ExpenseData ==
    {<<>>,
     <<Entry("vendor", StrValue(AcmeCorp)), Entry("amount", IntValue(150)),
       Entry("category", StrValue(<<"T", "r", "a", "v", "e", "l">>)), Entry("notes", StrValue(<<>>))>>,
     <<Entry("vendor", StrValue(AcmeCorp)), Entry("amount", IntValue(50)),
       Entry("category", StrValue(<<"M", "e", "a", "l", "s">>)), Entry("notes", StrValue(<<"o", "l", "d">>))>>,
     <<Entry("vendor", StrValue(Bolt)), Entry("amount", IntValue(600)),
       Entry("category", StrValue(<<"T", "r", "a", "v", "e", "l">>)), Entry("department", StrValue(<<"S", "a", "l", "e", "s">>))>>,
     <<Entry("vendor", NoneValue), Entry("amount", NoneValue),
       Entry("category", StrValue(<<"U", "n", "c", "a", "t", "e", "g", "o", "r", "i", "z", "e", "d">>)), Entry("notes", StrValue(<<>>))>>}

(***************************************************************************)
(* The rule engine as a state machine: a caller holds expense_data and     *)
(* calls applies_to and apply_actions of rule with it.                     *)
(***************************************************************************)
\* one call of applies_to(expense_data)
AppliesTo ==
    /\ rpc = "idle"
    /\ rret' = Returned("applies_to", <<>>, applies_to(rule, expense_data))
    /\ rpc' = "tested"
    /\ UNCHANGED <<rule, expense_data, ri>>
    /\ UNCHANGED <<valvars, catvars, parvars>>

\* apply_actions(expense_data) is entered
ApplyActions ==
    /\ rpc \in {"idle", "tested"}
    /\ rpc' = "apply"
    /\ ri' = 1
    /\ rret' = None
    /\ UNCHANGED <<rule, expense_data>>
    /\ UNCHANGED <<valvars, catvars, parvars>>

\* one iteration of `for action, value in self.actions.items():`
ApplyNext ==
    /\ rpc = "apply"
    /\ ri <= Len(rule.actions)
    /\ expense_data' = ApplyAction(expense_data, rule.actions[ri])
    /\ ri' = ri + 1
    /\ UNCHANGED <<rule, rpc, rret>>
    /\ UNCHANGED <<valvars, catvars, parvars>>

\* return expense_data
ApplyReturn ==
    /\ rpc = "apply"
    /\ ri > Len(rule.actions)
    /\ rret' = Returned("apply_actions", <<>>, Return(expense_data))
    /\ rpc' = "returned"
    /\ UNCHANGED <<rule, expense_data, ri>>
    /\ UNCHANGED <<valvars, catvars, parvars>>

NextRule ==
    \/ AppliesTo
    \/ ApplyActions
    \/ ApplyNext
    \/ ApplyReturn

\* a rule with any of the condition and action maps, and a caller's dict
InitRule ==
    \E c \in RuleConditions, a \in RuleActions, d \in ExpenseData :
        /\ rule = [conditions |-> c, actions |-> a]
        /\ expense_data = d
        /\ rpc = "idle"
        /\ ri = 1
        /\ rret = None
        /\ NoValidator
        /\ NoCategorizer
        /\ NoCalls

SpecRule == InitRule /\ [][NextRule]_vars

(***************************************************************************)
(* Properties                                                              *)
(***************************************************************************)
\* every verdict of the state: those stored in results and the one under construction
Verdicts == {results[k] : k \in DOMAIN results} \cup {result}

Contains(seq, m) == \E k \in 1..Len(seq) : seq[k] = m

\* position of the first occurrence of m in seq (0 when absent)
Pos(seq, m) == IF Contains(seq, m) THEN CHOOSE k \in 1..Len(seq) : seq[k] = m /\ \A j \in 1..(k - 1) : seq[j] # m ELSE 0

\* the record under validation, and the verdict validate is about to return for it
Returning == pc = "return"

Current == receipts[idx]

\* C1: in every state of validate and validate_batch, a verdict's validity flag is
\* false exactly when its error list is non-empty, and appending a warning to it
\* leaves the flag (and the error list) as they are.
C1_ValidIffNoErrors ==
    \A v \in Verdicts :
        /\ (v.is_valid = FALSE) <=> (v.errors # <<>>)
        /\ add_warning(v, "w").is_valid = v.is_valid
        /\ add_warning(v, "w").errors = v.errors

\* a verdict under construction that already holds an error and then a later warning
C1_Witness ==
    /\ pc = "category"
    /\ result.errors = <<"Vendor name is missing">>
    /\ Contains(result.warnings, "Amount is unusually high")
    /\ result.is_valid = FALSE

\* C2: a verdict is created with confidence 1.0, no step of validate or
\* validate_batch increases the confidence of a verdict, and every verdict's
\* confidence stays within [0.0, 1.0].
C2_ConfidenceMonotoneInRange ==
    /\ [](\A v \in Verdicts : v.confidence_score >= 0 /\ v.confidence_score <= 100)
    /\ [][/\ (pc = "loop" /\ pc' = "vendor") => result'.confidence_score = 100
          /\ (pc # "loop") => result'.confidence_score <= result.confidence_score
          /\ \A k \in DOMAIN results : k \in DOMAIN results' /\ results'[k].confidence_score <= results[k].confidence_score]_vars

\* a verdict whose penalties add up to 1.1 and whose confidence stopped at the floor
C2_Witness ==
    /\ Returning
    /\ result.confidence_score = 0
    /\ Contains(result.warnings, "Vendor name appears to be placeholder")
    /\ Contains(result.warnings, "Amount is unusually high")
    /\ Contains(result.warnings, "Amount is a round number - verify accuracy")
    /\ Contains(result.warnings, "Date is in the future")
    /\ Contains(result.warnings, "Poor OCR text quality detected")
    /\ Contains(result.warnings, "Low confidence score")
    /\ ~Contains(result.warnings, "Incomplete data - manual review recommended")

\* C3: validate runs the check groups vendor, amount, date, category, business
\* rules, data quality, confidence, in that order and whatever the earlier ones
\* found: when validate returns, the finding of every check whose condition the
\* record meets is in the verdict, and the findings are in check order.
C3_AllChecksRun ==
    /\ [](Returning =>
            LET e == result.errors
                w == result.warnings
                noVendor   == ~TruthyStr(Current.receipt.vendor)
                noAmount   == Current.receipt.amount = None
                noDate     == Current.receipt.date = None
                noCategory == Current.category = None \/ Val(Current.category) = ""
                lowConf    == Current.confidence_score < 50
            IN /\ noVendor => Contains(e, "Vendor name is missing")
               /\ noAmount => Contains(e, "Amount is missing")
               /\ noCategory => Contains(e, "Category is missing")
               /\ lowConf => Contains(e, "Very low confidence - manual review required")
               /\ noDate => Contains(w, "Date is missing")
               /\ lowConf => Contains(w, "Low confidence score")
               /\ (noVendor /\ noAmount) => Pos(e, "Vendor name is missing") < Pos(e, "Amount is missing")
               /\ (noAmount /\ noCategory) => Pos(e, "Amount is missing") < Pos(e, "Category is missing")
               /\ (noCategory /\ lowConf) => Pos(e, "Category is missing") < Pos(e, "Very low confidence - manual review required")
               /\ (noVendor /\ noAmount /\ lowConf) =>
                     /\ Pos(e, "Vendor name is missing") = 1
                     /\ Pos(e, "Amount is missing") = 2
                     /\ Pos(e, "Very low confidence - manual review required") = Len(e)
               /\ (noDate /\ lowConf) => Pos(w, "Date is missing") < Pos(w, "Low confidence score"))
    /\ [][/\ pc = "vendor" => pc' = "amount"
          /\ pc = "amount" => pc' = "date"
          /\ pc = "date" => pc' = "category"
          /\ pc = "category" => pc' = "business_rules"
          /\ pc = "business_rules" => pc' = "data_quality"
          /\ pc = "data_quality" => pc' = "confidence"
          /\ pc = "confidence" => pc' = "return"]_vars

\* the record of the claim: no vendor, no amount, confidence below 0.5, all three errors
C3_Witness ==
    /\ Returning
    /\ Current.receipt.vendor = None
    /\ Current.receipt.amount = None
    /\ Current.confidence_score < 50
    /\ result.errors = <<"Vendor name is missing", "Amount is missing", "Very low confidence - manual review required">>

\* the date string parses in one of the six accepted formats
ParsesInAcceptedFormat(date_str) == \E k \in 1..Len(date_formats) : strptime(date_str, date_formats[k]) # <<>>

\* C4: the verdict validate returns is valid if and only if the vendor is present
\* with at least 2 characters after trimming, the amount is present and strictly
\* positive, the date is missing or parses in one of the six formats, the category
\* is present and the record's confidence is at least 0.5.
C4_ValidIffHardConditions ==
    Returning =>
        (result.is_valid <=>
            /\ TruthyStr(Current.receipt.vendor)
            /\ Len(Strip(Val(Current.receipt.vendor))) >= 2
            /\ Current.receipt.amount # None
            /\ Val(Current.receipt.amount) > 0
            /\ \/ Current.receipt.date = None
               \/ Val(Current.receipt.date) = <<>>
               \/ ParsesInAcceptedFormat(Val(Current.receipt.date))
            /\ Current.category # None
            /\ Val(Current.category) # ""
            /\ Current.confidence_score >= 50)

\* a valid verdict for a record with a missing date, an unknown category, an amount
\* of 50001.00 and the boundary confidence 0.5
C4_Witness ==
    /\ Returning
    /\ result.is_valid
    /\ Current.confidence_score = 50
    /\ Contains(result.warnings, "Date is missing")
    /\ Contains(result.warnings, "Unknown category")
    /\ Contains(result.warnings, "Amount is unusually high")

PenalisedWarnings ==
    {"Vendor name appears to be placeholder", "Vendor name contains many special characters",
     "Amount is unusually high", "Amount is a round number - verify accuracy", "Date is in the future",
     "Poor OCR text quality detected", "Incomplete data - manual review recommended", "Low confidence score"}

\* C5 as stated: after validate, a verdict that holds at least one warning has a
\* confidence score strictly below 1.0.
C5_EveryWarningReduces ==
    (Returning /\ result.warnings # <<>>) => result.confidence_score < 100

\* C5 amended: after validate, a verdict's confidence score is strictly below 1.0
\* if and only if it holds at least one of the warnings the code attaches a penalty
\* to; the other warnings leave the score as it is.
C5_PenalisedWarningsReduce ==
    Returning =>
        ((\E k \in 1..Len(result.warnings) : result.warnings[k] \in PenalisedWarnings)
            <=> result.confidence_score < 100)

\* a verdict holding an unpenalised warning (missing date) and one penalised warning
\* (low confidence, 0.2): the score is exactly 0.8
C5_Witness ==
    /\ Returning
    /\ result.warnings = <<"Date is missing", "Low confidence score">>
    /\ result.confidence_score = 80

IsPrefix(a, b) == Len(a) <= Len(b) /\ SubSeq(b, 1, Len(a)) = a

BatchWarnings == {DuplicateWarning, OutlierWarning}

\* C6: every step of the batch consistency pass leaves the set of verdicts and each
\* verdict's error list, validity flag and confidence score unchanged, and keeps
\* the warnings already present as a prefix of the new warning list.
C6_BatchPassOnlyAppendsWarnings ==
    [][/\ pc \in {"duplicates", "patterns"} => DOMAIN results' = DOMAIN results
       /\ pc \in {"duplicates", "patterns"} =>
             \A k \in DOMAIN results :
                /\ results'[k].errors = results[k].errors
                /\ results'[k].is_valid = results[k].is_valid
                /\ results'[k].confidence_score = results[k].confidence_score
                /\ IsPrefix(results[k].warnings, results'[k].warnings)]_vars

\* after the batch pass: a verdict with a duplicate warning and a verdict with an
\* outlier warning, both still carrying the confidence 0.8 of their validation
C6_Witness ==
    /\ pc = "done"
    /\ \E k \in DOMAIN results :
          /\ Contains(results[k].warnings, DuplicateWarning)
          /\ results[k].confidence_score = 80
    /\ \E k \in DOMAIN results :
          /\ Contains(results[k].warnings, OutlierWarning)
          /\ results[k].confidence_score = 80

\* C7: no duplicate or outlier warning exists while the validation loop of
\* validate_batch is still running (and no outlier warning before the duplicate
\* pass is over); in every verdict the per-record warnings come before the
\* duplicate warnings, which come before the outlier warnings.
C7_BatchPassAfterAllValidations ==
    /\ (\E k \in DOMAIN results : \E m \in BatchWarnings : Contains(results[k].warnings, m)) =>
          /\ pc \in {"duplicates", "patterns", "done"}
          /\ DOMAIN results = {receipts[i].receipt.id : i \in 1..Len(receipts)}
    /\ (\E k \in DOMAIN results : Contains(results[k].warnings, OutlierWarning)) => pc = "done"
    /\ \A k \in DOMAIN results :
          LET w == results[k].warnings IN
          \A i \in 1..Len(w) : \A j \in 1..Len(w) :
              i < j =>
                 /\ w[i] \in BatchWarnings => w[j] \in BatchWarnings
                 /\ w[i] = OutlierWarning => w[j] = OutlierWarning

\* a returned batch with a verdict <<per-record.., duplicate>> and a verdict
\* <<per-record.., outlier>>
C7_Witness ==
    /\ pc = "done"
    /\ \E k \in DOMAIN results :
          LET w == results[k].warnings IN
          Len(w) >= 2 /\ w[1] \notin BatchWarnings /\ w[Len(w)] = DuplicateWarning
    /\ \E k \in DOMAIN results :
          LET w == results[k].warnings IN
          Len(w) >= 2 /\ w[1] \notin BatchWarnings /\ w[Len(w)] = OutlierWarning

\* number of occurrences of m in seq
Occurrences(seq, m) == Cardinality({k \in 1..Len(seq) : seq[k] = m})

\* the other records of the batch whose vendor, amount and date equal those of record i
Matching(i) ==
    {j \in 1..Len(receipts) :
        /\ j # i
        /\ receipts[j].receipt.vendor = receipts[i].receipt.vendor
        /\ receipts[j].receipt.amount = receipts[i].receipt.amount
        /\ receipts[j].receipt.date = receipts[i].receipt.date}

DistinctIds == \A i \in 1..Len(receipts) : \A j \in 1..Len(receipts) : i # j => receipts[i].receipt.id # receipts[j].receipt.id

\* C8: after validate_batch on records with pairwise distinct ids, each record's
\* verdict holds exactly as many "potential duplicate" warnings as there are other
\* records of the batch with the same vendor, amount and date.
C8_DuplicateWarningCount ==
    (pc \in {"patterns", "done"} /\ DistinctIds) =>
        \A i \in 1..Len(receipts) :
            Occurrences(results[receipts[i].receipt.id].warnings, DuplicateWarning) = Cardinality(Matching(i))

\* three equal records: each is warned twice
C8_Witness ==
    /\ pc = "done"
    /\ Len(receipts) = 3
    /\ \A i \in 1..3 : Occurrences(results[receipts[i].receipt.id].warnings, DuplicateWarning) = 2

\* the records of the batch whose amount is not None
KnownAmounts == {k \in 1..Len(receipts) : receipts[k].receipt.amount # None}

\* C9: when fewer than 5 records of the batch have a known amount, no verdict
\* holds the "significantly higher than batch average" warning, whatever the
\* number of records.
C9_NoOutlierBelowFiveKnown ==
    Cardinality(KnownAmounts) < 5 =>
        \A k \in DOMAIN results : ~Contains(results[k].warnings, OutlierWarning)

\* a returned batch of at least 5 records, fewer than 5 of them with a known amount,
\* among them 1.00 and 30.00: the mean was computed and nothing was flagged
C9_Witness ==
    /\ pc = "done"
    /\ Len(receipts) >= 5
    /\ Cardinality(KnownAmounts) < 5
    /\ \E i \in KnownAmounts : Val(receipts[i].receipt.amount) = 1000
    /\ \E i \in KnownAmounts : Val(receipts[i].receipt.amount) = 30000

\* sum of the amounts of the records with a known amount
RECURSIVE SumKnown(_)
SumKnown(k) ==
    IF k > Len(receipts) THEN 0
    ELSE (IF receipts[k].receipt.amount # None THEN Val(receipts[k].receipt.amount) ELSE 0) + SumKnown(k + 1)

\* C10: when outlier detection is not skipped, a record holds the outlier warning
\* if and only if its amount is known and strictly greater than 5 times the mean of
\* the known amounts of the batch, an amount of 0 counting as known.
C10_OutlierIffAboveFiveTimesMean ==
    (pc = "done" /\ Cardinality(KnownAmounts) >= 5 /\ DistinctIds) =>
        \A i \in 1..Len(receipts) :
            Contains(results[receipts[i].receipt.id].warnings, OutlierWarning)
              <=> /\ receipts[i].receipt.amount # None
                  /\ Cardinality(KnownAmounts) * Val(receipts[i].receipt.amount) > 5 * SumKnown(1)

\* C11: a record built through the Receipt constructor from a non-positive amount
\* is judged invalid by validate and its verdict holds "Amount must be positive".
C11_NonPositiveAmountRejected ==
    Returning =>
        \A a \in Amounts :
            (a # None /\ Val(a) <= 0 /\ Current.receipt.amount = Receipt(1, None, a, None, <<>>).amount) =>
                /\ result.is_valid = FALSE
                /\ Contains(result.errors, "Amount must be positive")

(***************************************************************************)
(* Properties of the categorizer                                           *)
(***************************************************************************)
\* categorize_expense has returned
Categorized == cpc = "returned" /\ ret.call = "categorize_expense"

\* what the four signals of categorize_expense compute for the record of the
\* call, in the order of the code; a signal that is skipped (no vendor, no
\* items) has no category
SignalOutcomes ==
    <<IF TruthyStr(arg.vendor) THEN categorize_by_vendor(Val(arg.vendor), vendor_mappings) ELSE Return(None),
      IF arg.items # <<>> THEN categorize_by_items(arg.items, categories) ELSE Return(None),
      categorize_by_text_analysis(arg, categories),
      categorize_by_amount(arg.amount)>>

\* of the outcomes o, the k-th is a category, is no category, is an exception
Produces(o, k) == ~o[k].raised /\ o[k].value # None

FellThrough(o, k) == ~o[k].raised /\ o[k].value = None

Faults(o, k) == o[k].raised

\* the signals before the k-th all fell through
Reaches(o, k) == \A j \in 1..(k - 1) : FellThrough(o, j)

\* the signal whose turn it is at each position inside categorize_expense
SignalAt == [vendor |-> 1, items |-> 2, text |-> 3, amount |-> 4, default |-> 5]

\* C12: categorize_expense returns the category of the first signal, in the order
\* vendor, items, full text, amount, that produces one, and "Miscellaneous" when
\* none does; a signal is consulted only after every earlier signal fell through.
C12_FirstSignalWins ==
    LET o == SignalOutcomes
    IN  /\ Categorized =>
                /\ \A k \in 1..4 : (Reaches(o, k) /\ Produces(o, k)) => (~ret.raised /\ ret.value = Val(o[k].value))
                /\ Reaches(o, 5) => (~ret.raised /\ ret.value = "Miscellaneous")
        /\ cpc \in DOMAIN SignalAt => Reaches(o, SignalAt[cpc])

\* a known vendor decides although the items point to another category
C12_Witness ==
    LET o == SignalOutcomes
    IN  /\ Categorized
        /\ Produces(o, 1) /\ Produces(o, 2)
        /\ Val(o[1].value) # Val(o[2].value)
        /\ ret.value = Val(o[1].value)

\* the names categorize_expense has in its code
BuiltInNames == {"Office Supplies", "Technology", "Miscellaneous", "Uncategorized"}

StoreNames == {categories[k].name : k \in 1..Len(categories)}

\* C13: categorize_expense always returns a category and never raises; when a
\* signal it consults raises, the result is "Uncategorized".
C13_CategorizeIsTotal ==
    LET o == SignalOutcomes
    IN  Categorized =>
            /\ ~ret.raised
            /\ ret.value \in StoreNames \cup BuiltInNames
            /\ \A k \in 1..4 : (Reaches(o, k) /\ Faults(o, k)) => ret.value = "Uncategorized"

\* the recognized text is a bytes object and the text signal is reached
C13_Witness ==
    LET o == SignalOutcomes
    IN  /\ Categorized
        /\ IsBytes(arg.ocr_text)
        /\ Reaches(o, 3) /\ Faults(o, 3)
        /\ ret.value = "Uncategorized"

\* score >= 0.9
AtLeastNineTenths(score) == 10 * score.num >= 9 * score.den

\* C14: a record whose vendor equals, case-insensitively, a vendor configured for
\* category C is categorized as C, and its score for C is at least 0.9.
C14_KnownVendorDecides ==
    (Categorized /\ TruthyStr(arg.vendor)) =>
        \A k \in 1..Len(categories) : \A n \in 1..Len(categories[k].vendors) :
            Lower(categories[k].vendors[n]) = Lower(Val(arg.vendor)) =>
                /\ ret.value = categories[k].name
                /\ ~get_category_confidence(arg, categories[k].name, categories).raised
                /\ AtLeastNineTenths(get_category_confidence(arg, categories[k].name, categories).value)

\* C15: every name categorize_expense returns is the name of an entry of the store
\* the categorizer was built with.
C15_ReturnsStoreCategory == Categorized => ret.value \in StoreNames

EightCategories == <<"Office Supplies", "Meals & Entertainment", "Travel", "Technology", "Marketing", "Utilities", "Professional Services", "Miscellaneous">>

\* C16: loading the store never raises; a missing or unparseable file
\* gives the built-in eight categories, a well-formed file its own mapping.
C16_LoadNeverRaises ==
    /\ cpc # "raised"
    /\ cpc # "init" =>
            IF config_file.state = "wellformed"
            THEN categories = config_file.content
            ELSE categories = get_default_categories /\ CategoryNames(categories) = EightCategories

C16_Witness == cpc = "idle" /\ config_file.state = "malformed" /\ CategoryNames(categories) = EightCategories

\* C19: when the vendor, item and text signals fall through and the amount is
\* known, the result is "Office Supplies" below 10, "Technology" above 500 and
\* "Miscellaneous" from 10 to 500.
C19_AmountHeuristic ==
    (Categorized /\ arg.amount # None /\ Reaches(SignalOutcomes, 4)) =>
        ret.value = IF Val(arg.amount) < 10000 THEN "Office Supplies"
                    ELSE IF Val(arg.amount) > 500000 THEN "Technology"
                    ELSE "Miscellaneous"

\* a record with no vendor, no items and empty recognized text
EmptyRecord == arg.vendor = None /\ arg.items = <<>> /\ arg.ocr_text = <<>>

\* C20 as stated: every record with no vendor, no items and empty recognized text
\* is categorized as "Miscellaneous".
C20_EmptyRecordIsMiscellaneous == (Categorized /\ EmptyRecord) => ret.value = "Miscellaneous"

\* C20: a record with no vendor, no items and empty recognized text whose amount
\* is unknown or lies between 10 and 500 inclusive is categorized as "Miscellaneous".
C20_EmptyRecordMidAmountIsMiscellaneous ==
    (Categorized /\ EmptyRecord /\ (arg.amount = None \/ (Val(arg.amount) >= 10000 /\ Val(arg.amount) <= 500000))) =>
        ret.value = "Miscellaneous"

C20_Witness == Categorized /\ EmptyRecord /\ arg.amount = Some(500000) /\ ret.value = "Miscellaneous"

\* get_category_confidence, suggest_categories have returned
Scored == cpc = "returned" /\ ret.call = "get_category_confidence"

Suggested == cpc = "returned" /\ ret.call = "suggest_categories"

\* position of a category in the store
StorePos(name) == CHOOSE k \in 1..Len(categories) : categories[k].name = name

\* C17: for top_n >= 0 suggest_categories returns min(top_n, number of store
\* categories) entries, each a distinct store category with its score, in
\* non-increasing order of score and in store order among equal scores; calling
\* it again returns the same sequence.
C17_SuggestTopN ==
    (Suggested /\ ret.args[1] >= 0 /\ ~ret.raised) =>
        /\ Len(ret.value) = Min(ret.args[1], Len(categories))
        /\ \A i \in 1..Len(ret.value) :
                /\ ret.value[i].category \in StoreNames
                /\ ret.value[i].score = get_category_confidence(arg, ret.value[i].category, categories).value
        /\ \A i, j \in 1..Len(ret.value) : i < j =>
                /\ ret.value[i].category # ret.value[j].category
                /\ ScoreLeq(ret.value[j].score, ret.value[i].score)
                /\ ScoreLeq(ret.value[i].score, ret.value[j].score) =>
                        StorePos(ret.value[i].category) < StorePos(ret.value[j].category)
        /\ suggest_categories(arg, ret.args[1], categories) = Return(ret.value)

\* more suggestions are asked for than there are categories, and two categories
\* of equal positive score lead the list
C17_Witness ==
    /\ Suggested /\ ~ret.raised
    /\ ret.args[1] > Len(categories)
    /\ Len(ret.value) = Len(categories)
    /\ Len(categories) >= 2
    /\ ret.value[1].score = ret.value[2].score
    /\ ret.value[1].score.num > 0

\* C18: for a record with no vendor, no items and empty recognized text
\* get_category_confidence returns 0.5, whatever the category.
C18_NeutralScore == (Scored /\ EmptyRecord) => (~ret.raised /\ 2 * ret.value.num = ret.value.den)

\* the penalty of a condition the record triggers, in hundredths
Penalty(triggered, amount) == IF triggered THEN amount ELSE 0

\* the date parses and lies more than 30 days after the day of the clock
MoreThan30DaysAhead(date) ==
    /\ date # None
    /\ Val(date) # <<>>
    /\ parsed_date(Val(date)) # <<>>
    /\ \A now \in Clock :
          LET p == parsed_date(Val(date)) IN Ordinal(p[1], p[2], p[3]) - now.day > 30

\* the recognized text is present and its quality is below 0.5
PoorOcrQuality(ocr_text) ==
    /\ ocr_text # <<>>
    /\ LET q == assess_ocr_quality(ocr_text) IN 2 * q.num < q.den

\* sum of the penalties of the eight penalised conditions the record triggers
TriggeredPenalties(r) ==
    LET v == r.receipt.vendor
        a == r.receipt.amount
    IN    Penalty(TruthyStr(v) /\ Lower(Val(v)) \in Placeholders, 30)
        + Penalty(TruthyStr(v) /\ 5 * SpecialCharCount(Val(v)) > Len(Val(v)), 20)
        + Penalty(a # None /\ Val(a) > 50000 * 1000, 10)
        + Penalty(a # None /\ Val(a) % 1000 = 0 /\ Val(a) >= 100 * 1000, 10)
        + Penalty(MoreThan30DaysAhead(r.receipt.date), 20)
        + Penalty(PoorOcrQuality(r.receipt.ocr_text), 20)
        + Penalty(10 * calculate_completeness(r) < 7 * 5, 30)
        + Penalty(r.confidence_score < MIN_CONFIDENCE_SCORE, 20)

PresentFields(r) ==
      (IF r.receipt.vendor # None /\ Val(r.receipt.vendor) # <<>> THEN 1 ELSE 0)
    + (IF r.receipt.amount # None THEN 1 ELSE 0)
    + (IF r.receipt.date # None /\ Val(r.receipt.date) # <<>> THEN 1 ELSE 0)
    + (IF r.category # None /\ Val(r.category) # "" THEN 1 ELSE 0)
    + (IF r.description # <<>> THEN 1 ELSE 0)

IncompleteWarning == "Incomplete data - manual review recommended"

\* C28: the verdict validate returns holds the "manual review recommended" warning
\* (appended with a confidence reduction of 0.3) if and only if fewer than 4 of the
\* 5 fields vendor, amount, date, category and description are present; a record
\* missing exactly one of the five gets no completeness warning.
C28_IncompleteIffFewerThanFour ==
    Returning => (Contains(result.warnings, IncompleteWarning) <=> PresentFields(Current) < 4)

\* the records of the batch with a positive amount
PositiveAmounts == {k \in 1..Len(receipts) : receipts[k].receipt.amount # None /\ Val(receipts[k].receipt.amount) > 0}

NonNegativeAmounts == \A k \in KnownAmounts : Val(receipts[k].receipt.amount) >= 0

\* C30: in a batch whose known amounts are all non-negative, no verdict ever holds
\* the outlier warning unless at least 6 records of the batch have a positive
\* amount; in particular no verdict of a batch of exactly 5 records ever holds it.
C30_OutlierNeedsSixPositive ==
    NonNegativeAmounts =>
        /\ (\E k \in DOMAIN results : Contains(results[k].warnings, OutlierWarning))
              => Cardinality(PositiveAmounts) >= 6
        /\ Len(receipts) = 5
              => \A k \in DOMAIN results : ~Contains(results[k].warnings, OutlierWarning)

\* a returned batch of exactly 5 records with the amounts 1.00 (four times) and
\* 30.00: the mean is 6.80, 30.00 does not exceed 34.00 and no verdict is warned
C30_Witness ==
    /\ pc = "done"
    /\ Len(receipts) = 5
    /\ Cardinality({k \in 1..5 : receipts[k].receipt.amount = Some(1000)}) = 4
    /\ Cardinality({k \in 1..5 : receipts[k].receipt.amount = Some(30000)}) = 1
    /\ \A k \in DOMAIN results : ~Contains(results[k].warnings, OutlierWarning)

\* the number of whole-word, case-insensitive occurrences of the keywords in s:
\* every place where a keyword stands between two word boundaries
RECURSIVE WholeWordCount(_, _)
WholeWordCount(s, keywords) ==
    IF keywords = <<>> THEN 0
    ELSE Cardinality({p \in 1..Len(s) : MatchesAt(s, Head(keywords), p)}) + WholeWordCount(s, Tail(keywords))

\* the item descriptions of the record of the call, as one text
ItemText == Join(arg.items)

ItemCount(k) == WholeWordCount(ItemText, categories[k].keywords)

\* the categories of the store with the highest item count
HighestItemCount == {k \in 1..Len(categories) : \A j \in 1..Len(categories) : ItemCount(j) <= ItemCount(k)}

\* C26: for a record with items (all of them str), the item signal returns the
\* category with the highest nonzero whole-word keyword match count over the
\* items, the first in category-store order when several share the highest
\* count, and falls through to the text signal when every count is zero.
C26_ItemSignalFirstHighest ==
    [][/\ (cpc = "items" /\ arg.items # <<>> /\ ~JoinRaises(arg.items)) =>
            LET first == CHOOSE k \in HighestItemCount : \A j \in HighestItemCount : k <= j
            IN  IF ItemCount(first) > 0
                THEN cpc' = "returned" /\ ~ret'.raised /\ ret'.value = categories[first].name
                ELSE cpc' = "text"]_vars

\* the item "phone" matches one keyword of Technology and one of Utilities, and
\* categorize_expense returned Technology, the earlier of the two in the store
C26_Witness ==
    /\ Categorized
    /\ arg.vendor = None
    /\ arg.items = <<<<"p", "h", "o", "n", "e">>>>
    /\ Cardinality(HighestItemCount) = 2
    /\ \A k \in HighestItemCount : ItemCount(k) = 1 /\ categories[k].name \in {"Technology", "Utilities"}
    /\ ret.value = "Technology"

\* the record of the call has the vendor "Best Buy", no items and no recognized
\* text, and the store is the built-in one
BestBuyOnBuiltInStore ==
    /\ CategoryNames(categories) = EightCategories
    /\ arg.vendor = Some(BestBuy)
    /\ arg.items = <<>>
    /\ arg.ocr_text = <<>>

\* the first category suggest_categories returns for the record of the call
FirstSuggestion == suggest_categories(arg, 1, categories).value[1].category

\* C25: categorize_expense and suggest_categories are not equivalent: with the
\* built-in store, the category categorize_expense returns for the record with
\* vendor "Best Buy" differs from the first category suggest_categories returns
\* for it.
C25_SuggestDiffersFromCategorize ==
    (Categorized /\ BestBuyOnBuiltInStore) =>
        /\ ~ret.raised
        /\ ~suggest_categories(arg, 1, categories).raised
        /\ ret.value # FirstSuggestion

\* categorize_expense returned Technology (the later of the two categories listing
\* "best buy" owns the vendor mapping) while suggest_categories ranks Office
\* Supplies first (equal scores, earlier in the store)
C25_Witness ==
    /\ Categorized
    /\ BestBuyOnBuiltInStore
    /\ ret.value = "Technology"
    /\ FirstSuggestion = "Office Supplies"

\* the verdict v is the one validate produces for record i, with only the batch
\* warnings of record i appended
VerdictOfRecord(v, i) ==
    \E now \in Clock :
        LET own == validate_processed_receipt(receipts[i], now) IN
        /\ v.is_valid = own.is_valid
        /\ v.errors = own.errors
        /\ v.confidence_score = own.confidence_score
        /\ IsPrefix(own.warnings, v.warnings)
        /\ \A k \in (Len(own.warnings) + 1)..Len(v.warnings) : v.warnings[k] \in BatchWarnings
        /\ Occurrences(v.warnings, DuplicateWarning) = Cardinality(Matching(i))

\* C29: validate_batch returns exactly one verdict per record of the batch, and the
\* verdict associated with a record is the one produced by validating that record,
\* with only that record's batch warnings added; for every batch, also when two
\* records carry the same id.
C29_OneVerdictPerRecord ==
    pc = "done" =>
        /\ Cardinality(DOMAIN results) = Len(receipts)
        /\ \A i \in 1..Len(receipts) :
              /\ receipts[i].receipt.id \in DOMAIN results
              /\ VerdictOfRecord(results[receipts[i].receipt.id], i)

\* the verdict call k refers to
VerdictOf(k) == heap[calls[k].ref]

\* C21: per-record validation shares no mutable state between records: no step of
\* a call changes a record, every call builds its verdict in a newly created
\* object no other call refers to, and the verdict a call returns is the one
\* validate computes for its own record alone, in every interleaving of the calls.
C21_NoSharedState ==
    [][/\ receipts' = receipts
       /\ \A k \in DOMAIN calls :
            /\ (calls[k].pc = "start" /\ calls'[k].pc # "start") =>
                    /\ calls'[k].ref \notin DOMAIN heap
                    /\ \A j \in DOMAIN calls : j # k => calls'[j].ref # calls'[k].ref
            /\ calls'[k].pc = "returned" =>
                    \E now \in Clock : heap'[calls'[k].ref] = validate_processed_receipt(receipts[k], now)]_vars

\* two calls interleaved: the call for the second record began first (it holds the
\* older verdict object) and is still running while the call for the first record
\* has returned, and the two verdicts differ
C21_Witness ==
    /\ Len(calls) = 2
    /\ calls[1].pc = "returned"
    /\ calls[2].pc = "data_quality"
    /\ calls[2].ref < calls[1].ref
    /\ VerdictOf(1).errors # VerdictOf(2).errors

(***************************************************************************)
(* Properties of the rule engine                                           *)
(***************************************************************************)
Tested == rpc = "tested" /\ rret.call = "applies_to"

\* the value satisfies the condition c: equality for a plain value, and for a
\* compound condition every one of the bounds given
Satisfies(value, c) ==
    IF c.dict
    THEN /\ c.min # None => (value.t = "int" /\ value.n >= Val(c.min).n)
         /\ c.max # None => (value.t = "int" /\ value.n <= Val(c.max).n)
         /\ c.contains # None => IsSubstring(Lower(Val(c.contains).s), Lower(PyStr(value)))
         /\ c.equals # None => PyEq(value, Val(c.equals))
    ELSE PyEq(value, c.value)

\* every condition of the rule names a field of the data whose value satisfies it
AllConditionsHold ==
    \A k \in 1..Len(rule.conditions) :
        /\ HasKey(expense_data, rule.conditions[k].field)
        /\ Satisfies(Item(expense_data, rule.conditions[k].field), rule.conditions[k])

\* C22: applies_to returns true if and only if, for every field of the rule's
\* condition map, the field is present in the data and its value satisfies the
\* condition (equality for a plain value; every given min, max, contains and
\* equals bound for a compound one); a missing field or a failed condition makes
\* it return false, and a rule without conditions applies to every record.
C22_AppliesIffAllConditionsHold ==
    Tested => (~rret.raised /\ (rret.value <=> AllConditionsHold))

\* the position of an action in the order set_category, set_account_code,
\* set_department, require_approval, add_note
FixedOrder == <<"set_category", "set_account_code", "set_department", "require_approval", "add_note">>

Rank(action) == Pos(FixedOrder, action)

\* C23: apply_actions executes the rule's actions in the fixed order set_category,
\* set_account_code, set_department, require_approval, add_note, whatever the
\* order of the rule's action map: when an action is executed, no action of the
\* map that comes earlier in the fixed order is still to be executed.
C23_ActionsInFixedOrder ==
    [][(rpc = "apply" /\ ri' = ri + 1) =>
            \A k \in (ri + 1)..Len(rule.actions) :
                (Rank(rule.actions[k].action) # 0 /\ Rank(rule.actions[ri].action) # 0)
                    => Rank(rule.actions[ri].action) < Rank(rule.actions[k].action)]_vars

\* C24: apply_actions leaves the dict it was given unchanged and delivers the
\* updated fields only through its return value: no step of the call changes the
\* caller's expense_data.
C24_ApplyLeavesFieldsUnchanged ==
    [][rpc = "apply" => expense_data' = expense_data]_vars

====
